---------------------------- MODULE Spec2Model ----------------------------
(***************************************************************************)
(* Model of the livestream reservation path of isupipe                     *)
(* (webapp/go/livestream_handler.go, stored in src/webapp/sql/init.sql     *)
(* from line 433 on): reserveLivestreamHandler run by several concurrent   *)
(* HTTP requests against one MySQL database.                               *)
(*                                                                         *)
(* Database model.  The committed contents of the tables are the variables *)
(* reservation_slots, livestreams and livestream_tags.  Every call runs in *)
(* its own transaction (tx): its writes are held in tx[c] and reach the    *)
(* tables at tx.Commit(); tx.Rollback() discards them.  SELECT ... FOR     *)
(* UPDATE takes an exclusive row lock on every row it returns, one row at  *)
(* a time in primary-key order, and holds it to the end of the             *)
(* transaction.  AUTO_INCREMENT values are handed out at INSERT time and   *)
(* are not given back by a rollback.                                       *)
(***************************************************************************)
EXTENDS Integers, Sequences, FiniteSets, TLC

\* ------------------------------------------------------------------------
\* Program constants
\* ------------------------------------------------------------------------

\* time.Date(2023, 11, 25, 1, 0, 0, 0, time.UTC).Unix()
TermStartAt == 1700874000

\* time.Date(2024, 11, 25, 1, 0, 0, 0, time.UTC).Unix()
TermEndAt == 1732496400

StatusOK == 200

StatusCreated == 201

StatusBadRequest == 400

StatusForbidden == 403

StatusUnauthorized == 401

StatusNotFound == 404

StatusInternalServerError == 500

\* the ttl of an icon hash cache entry, in seconds (time.Second*2)
IconHashTTL == 2

\* loginHandler: 1 * time.Hour, in seconds
SessionTTL == 3600

\* the bytes of ../img/NoImage.jpg (images are modelled by numbers)
noimage == 0

\* the reserved user name "pipe"
pipe == 0

\* a user name nobody has registered
NewName == 3

\* ------------------------------------------------------------------------
\* Bounds of the model
\* ------------------------------------------------------------------------

\* number of rows of reservation_slots (they tile the term)
NumSlots == 3

\* largest initial value of reservation_slots.slot
MaxSlot == 2

\* number of calls (each call is one HTTP request, handled by one handler)
MaxCalls == 2

\* largest value of the limit query parameter
MaxLimit == 2

\* number of postIconHandler calls
MaxPosts == 2

\* number of getIconHashCache calls
MaxGets == 2

\* number of registerHandler calls
MaxRegs == 2

\* the clock runs from 0 to MaxTime seconds
MaxTime == 3

\* number of clients (each holds one cookie)
MaxClients == 1

\* the sessions' clock runs MaxSkew seconds from the start and MaxSkew
\* seconds past the hour
MaxSkew == 1

\* ------------------------------------------------------------------------
\* Derived sets
\* ------------------------------------------------------------------------

Calls == 1..MaxCalls

SlotIds == 1..NumSlots

SlotWidth == (TermEndAt - TermStartAt) \div NumSlots

HalfSlot == SlotWidth \div 2

\* instant number k of the model: slot boundaries are the even k, slot
\* middles the odd k; the term is [Instant(0), Instant(2 * NumSlots))
Instant(k) == TermStartAt + k * HalfSlot

\* instants a request may start at: every slot boundary and every slot
\* middle, from one slot width before the term to half a slot after it
ReqTimes == {Instant(k) : k \in (-2)..(2 * NumSlots + 1)}

\* lengths of a requested range
ReqSpans == {HalfSlot, SlotWidth, 2 * SlotWidth}

\* the user id held by the session of call c (verifyUserSession, line 525)
SessionUserID(c) == ((c - 1) % 2) + 1

\* ReserveLivestreamRequest.Tags of call c
RequestTags(c) == IF c % 2 = 1 THEN <<1, 2>> ELSE <<>>

\* a text field of the request of call c (title, description, playlist_url,
\* thumbnail_url): the field's name with the number of the call
RequestText(c, field) == <<field, c>>

NoRequest ==
    [user_id |-> 0, title |-> <<>>, description |-> <<>>, playlist_url |-> <<>>,
     thumbnail_url |-> <<>>, start_at |-> 0, end_at |-> 0, tags |-> <<>>]

NoRow ==
    [id |-> 0, user_id |-> 0, title |-> <<>>, description |-> <<>>,
     playlist_url |-> <<>>, thumbnail_url |-> <<>>, start_at |-> 0, end_at |-> 0]

NoResponse == [code |-> 0, msg |-> ""]

\* a path or query parameter as the client sent it: absent, the decimal
\* text of an integer, or some other text
NoParam == [kind |-> "none", n |-> 0]

IntParam(n) == [kind |-> "int", n |-> n]

TextParam == [kind |-> "text", n |-> 0]

\* no request parameters (the call is not to one of the handlers below
\* reserveLivestreamHandler)
NoQuery ==
    [handler |-> "", tag |-> 0, limit |-> NoParam, id |-> NoParam, username |-> 0]

EmptyTx == [updated |-> {}, livestream |-> NoRow, tags |-> <<>>]

VARIABLES
    reservation_slots,  \* committed table: id -> ReservationSlotModel
    livestreams,        \* committed table: set of LivestreamModel rows
    livestream_tags,    \* committed table: sequence of (livestream_id, tag_id)
    auto_increment,     \* AUTO_INCREMENT counter of livestreams
    initial_slot,       \* reservation_slots.slot as seeded
    pc,                 \* per call: position in the handler
    req,                \* per call: the decoded request
    locks,              \* per call: ids of the rows it holds FOR UPDATE
    slots,              \* per call: the handler's variable slots
    tx,                 \* per call: uncommitted writes of its transaction
    response,           \* per call: what the handler returned
    session,            \* per call: the user id held by its session
    query,              \* per call: parameters of a request to a reading handler
    body,               \* per call: what the response carries besides the status
    livestream_viewers_history,  \* committed table: set of rows
    viewers_auto_increment,      \* AUTO_INCREMENT counter of that table
    now,                \* the clock (time.Now), in seconds
    iconHashCache,      \* iconHashCache.data: set of entries, one per key
    icons,              \* committed table: set of rows
    icons_auto_increment,  \* AUTO_INCREMENT counter of icons
    post,               \* per postIconHandler call: position, request, transaction
    hashcall,           \* per getIconHashCache call: position and local variables
    returned,           \* per user: number of postIconHandler calls that returned 201
    users,              \* committed table: set of rows
    themes,             \* committed table: set of rows
    users_auto_increment,   \* AUTO_INCREMENT counter of users
    themes_auto_increment,  \* AUTO_INCREMENT counter of themes
    records,            \* the DNS records (records sync.Map): set of names
    reg,                \* per registerHandler call: position, request, transaction
    nanos,              \* the clock's part below the second, in half seconds
    cookies,            \* per client: the session its cookie carries
    visit               \* per client: its request to a handler that verifies the session

viewers == <<livestream_viewers_history, viewers_auto_increment>>

\* what postIconHandler and getIconHashCache work on, the cache apart
iconState == <<icons, icons_auto_increment, post, hashcall, returned>>

\* what registerHandler works on, the cache apart
registry == <<users, themes, users_auto_increment, themes_auto_increment, records, reg>>

\* what loginHandler and verifyUserSession work on
logins == <<nanos, cookies, visit>>

\* the state of user_handler.go, the cache apart
accounts == <<now, iconState, registry, logins>>

vars == <<reservation_slots, livestreams, livestream_tags, auto_increment,
          initial_slot, pc, req, locks, slots, tx, response,
          session, query, body, viewers, iconHashCache, accounts>>

tables == <<reservation_slots, livestreams, livestream_tags>>

\* the decoded ReserveLivestreamRequest of call c, with the session's user id
Requests(c) ==
    {[user_id |-> session[c],
      title |-> RequestText(c, "title"),
      description |-> RequestText(c, "description"),
      playlist_url |-> RequestText(c, "playlist_url"),
      thumbnail_url |-> RequestText(c, "thumbnail_url"),
      start_at |-> s, end_at |-> s + d,
      tags |-> RequestTags(c)] : s \in ReqTimes, d \in ReqSpans}

\* ------------------------------------------------------------------------
\* Seed data
\* ------------------------------------------------------------------------

\* variant of the seed in which the rows were inserted latest slot first, so
\* that ids descend as start_at ascends
InitialSlotsLatestFirst(cap) ==
    [i \in SlotIds |->
        [id |-> i, slot |-> cap,
         start_at |-> TermStartAt + (NumSlots - i) * SlotWidth,
         end_at |-> TermStartAt + (NumSlots - i + 1) * SlotWidth]]

\* reservation_slots as provisioned: NumSlots contiguous rows tiling the term,
\* every row with the same configured capacity
InitialSlots(cap) ==
    [i \in SlotIds |->
        [id |-> i, slot |-> cap,
         start_at |-> TermStartAt + (i - 1) * SlotWidth,
         end_at |-> TermStartAt + i * SlotWidth]]

\* ------------------------------------------------------------------------
\* user_handler.go: the users, their themes and icons, the DNS records and
\* the icon hash cache.  User names are modelled by numbers: the name of the
\* seeded user n is n.
\* ------------------------------------------------------------------------

Posts == 1..MaxPosts

Gets == 1..MaxGets

Regs == 1..MaxRegs

\* the users registered before the first request (ids 1 and 2, the users
\* the sessions of the calls belong to), each with its theme and DNS record
SeedUserIds == {SessionUserID(c) : c \in Calls}

SeedUsers == {[id |-> u, name |-> u] : u \in SeedUserIds}

SeedThemes == {[id |-> u, user_id |-> u, dark_mode |-> FALSE] : u \in SeedUserIds}

\* req.Name + ".u.isucon.local."
DnsName(name) == <<name, ".u.isucon.local.">>

\* fmt.Sprintf("%x", sha256.Sum256(image)): different images of the model
\* have different hashes
Sha256(image) == <<"sha256", image>>

\* variant of the expiry test that never finds an entry expired
AfterNever(t, u) == FALSE

\* time.Time.After
After(t, u) == t > u

\* sync.Map.Load on iconHashCache.data: the entry of the key, if any
Load(key) == {e \in iconHashCache : e.key = key}

\* IconHashCache.Set with ttl = time.Second*2, applied to the map cache
CacheSet(cache, key, hash) ==
    {e \in cache : e.key # key}
        \cup {[key |-> key, value |-> hash, expiration |-> now + IconHashTTL]}

\* IconHashCache.Delete, applied to the map cache
CacheDelete(cache, key) == {e \in cache : e.key # key}

\* SELECT image FROM icons WHERE user_id = ? with the fallback of
\* getIconHashCache: the images GetContext may return (it takes the first
\* row the statement yields), noimage when there is no row
IconImages(u) ==
    IF \A r \in icons : r.user_id # u
    THEN {noimage}
    ELSE {r.image : r \in {k \in icons : k.user_id = u}}

\* getIconHashCache run to its end for every user of S, in one step: an
\* entry that is there and not expired stays; otherwise the hash of the
\* user's image is stored
FillIcons(S) ==
    \E img \in [S -> UNION {IconImages(u) : u \in S}] :
        /\ \A u \in S : img[u] \in IconImages(u)
        /\ iconHashCache' =
              {e \in iconHashCache : e.key \notin S \/ ~After(now, e.expiration)}
                 \cup {[key |-> u, value |-> Sha256(img[u]),
                        expiration |-> now + IconHashTTL] :
                          u \in {v \in S : \A e \in Load(v) : After(now, e.expiration)}}

\* a handler that fails part of the way through filling the users of S
FillIconsSome(S) == \E T \in SUBSET S : FillIcons(T)

NoIcon == [id |-> 0, user_id |-> 0, image |-> noimage]

NoPost ==
    [pc |-> "idle", user |-> 0, image |-> noimage, deleted |-> {},
     inserted |-> NoIcon, gap |-> FALSE, code |-> 0]

NoHashCall ==
    [pc |-> "idle", user |-> 0, loaded |-> {}, image |-> noimage,
     after |-> 0, hash |-> <<>>, err |-> FALSE]

NoUser == [id |-> 0, name |-> 0]

NoTheme == [id |-> 0, user_id |-> 0, dark_mode |-> FALSE]

NoReg ==
    [pc |-> "idle", name |-> 0, dark_mode |-> FALSE, user |-> NoUser,
     theme |-> NoTheme, code |-> 0]

Clients == 1..MaxClients

\* a session with no values: what session.Get returns for a request
\* without a cookie
NoSession ==
    [err |-> FALSE, values |-> {}, USERID |-> 0, EXPIRES |-> 0, created |-> <<0, 0>>]

\* a cookie the store cannot decode: session.Get returns an error
Garbled ==
    [err |-> TRUE, values |-> {}, USERID |-> 0, EXPIRES |-> 0, created |-> <<0, 0>>]

\* no request: err is what verifyUserSession returned (-1 before it has
\* run), at the instant it ran, statements the number of statements the
\* handler has run on the database
NoVisit ==
    [pc |-> "idle", handler |-> "", sess |-> NoSession, at |-> <<0, 0>>,
     err |-> -1, code |-> 0, statements |-> 0]

\* nobody has called user_handler.go yet
InitAccounts ==
    /\ now = 0
    /\ iconHashCache = {}
    /\ icons = {}
    /\ icons_auto_increment = 1
    /\ post = [p \in Posts |-> NoPost]
    /\ hashcall = [g \in Gets |-> NoHashCall]
    /\ returned = [u \in SeedUserIds |-> 0]
    /\ users = SeedUsers
    /\ themes = SeedThemes
    /\ users_auto_increment = Cardinality(SeedUserIds) + 1
    /\ themes_auto_increment = Cardinality(SeedUserIds) + 1
    /\ records = {DnsName(u.name) : u \in SeedUsers}
    /\ reg = [r \in Regs |-> NoReg]
    /\ nanos = 0
    /\ cookies = [k \in Clients |-> NoSession]
    /\ visit = [k \in Clients |-> NoVisit]

\* no request has arrived yet
InitCalls ==
    /\ pc = [c \in Calls |-> "idle"]
    /\ req = [c \in Calls |-> NoRequest]
    /\ locks = [c \in Calls |-> {}]
    /\ slots = [c \in Calls |-> <<>>]
    /\ tx = [c \in Calls |-> EmptyTx]
    /\ response = [c \in Calls |-> NoResponse]
    /\ query = [c \in Calls |-> NoQuery]
    /\ body = [c \in Calls |-> <<>>]

Init ==
    /\ \E cap \in 1..MaxSlot :
          /\ reservation_slots = InitialSlots(cap)
          /\ initial_slot = [i \in SlotIds |-> cap]
    /\ livestreams = {}
    /\ livestream_tags = <<>>
    /\ auto_increment = 1
    /\ livestream_viewers_history = {}
    /\ viewers_auto_increment = 1
    /\ session = [c \in Calls |-> SessionUserID(c)]
    /\ InitCalls
    /\ InitAccounts

\* ------------------------------------------------------------------------
\* reserveLivestreamHandler
\* ------------------------------------------------------------------------

\* variant of the term check with strict comparisons only (After/Before
\* without Equal)
OutOfTermStrict(r) == r.start_at > TermEndAt \/ r.end_at < TermStartAt

\* variant of the term check that tests the start of the range only
OutOfTermStartOnly(r) == r.start_at = TermEndAt \/ r.start_at > TermEndAt

\* the term check of line 545: TRUE when the request is refused
OutOfTerm(r) ==
    \/ (r.start_at = TermEndAt \/ r.start_at > TermEndAt)
    \/ (r.end_at = TermStartAt \/ r.end_at < TermStartAt)

\* WHERE start_at >= ? AND end_at <= ? of the SELECT ... FOR UPDATE
SelectWhere(row, r) == row.start_at >= r.start_at /\ row.end_at <= r.end_at

\* variant of the UPDATE whose WHERE clause lacks the end_at bound
UpdateWhereStartOnly(row, r) == row.start_at >= r.start_at

\* WHERE start_at >= ? AND end_at <= ? of the UPDATE
UpdateWhere(row, r) == row.start_at >= r.start_at /\ row.end_at <= r.end_at

\* ids of the rows the SELECT ... FOR UPDATE of call c returns
SelectIds(c) == {i \in SlotIds : SelectWhere(reservation_slots[i], req[c])}

\* variant of the UPDATE with SET slot = slot + 1
RowSeenByIncrement(c, i) ==
    IF i \in tx[c].updated
    THEN [reservation_slots[i] EXCEPT !.slot = @ + 1]
    ELSE reservation_slots[i]

\* variant of the UPDATE that also writes the reserved range into the row:
\* SET slot = slot - 1, start_at = ?, end_at = ?
RowSeenByRange(c, i) ==
    IF i \in tx[c].updated
    THEN [reservation_slots[i] EXCEPT !.slot = @ - 1,
                                      !.start_at = req[c].start_at,
                                      !.end_at = req[c].end_at]
    ELSE reservation_slots[i]

\* the value of a row as the transaction of call c sees it under its lock:
\* the committed row with the transaction's own UPDATE applied
RowSeenBy(c, i) ==
    IF i \in tx[c].updated
    THEN [reservation_slots[i] EXCEPT !.slot = @ - 1]
    ELSE reservation_slots[i]

\* variant without row locks (a plain SELECT, no lock wait)
NoRowLock(c, i) == FALSE

\* FOR UPDATE: row i is held by the transaction of another call
RowLocked(c, i) == \E d \in Calls \ {c} : i \in locks[d]

\* ReservationSlotModels.GetSlotCount
RECURSIVE GetSlotCountFrom(_, _, _)
GetSlotCountFrom(ms, slot, k) ==
    IF k > Len(ms) THEN 0
    ELSE IF ms[k].start_at = slot.start_at /\ ms[k].end_at = slot.end_at
         THEN ms[k].slot
         ELSE GetSlotCountFrom(ms, slot, k + 1)

\* variant of GetSlotCount that returns the count of the first fetched slot
GetSlotCountFirst(ms, slot) == IF Len(ms) = 0 THEN 0 ELSE ms[1].slot

GetSlotCount(ms, slot) == GetSlotCountFrom(ms, slot, 1)

\* variant of the capacity loop with the comparison count < 0
CheckFailsBelowZero(ms) == \E k \in 1..Len(ms) : GetSlotCount(ms, ms[k]) < 0

\* variant of the capacity loop that looks at the first fetched slot only
CheckFailsFirstSlot(ms) == Len(ms) >= 1 /\ GetSlotCount(ms, ms[1]) < 1

\* the loop of lines 556-562: TRUE when some fetched slot has count < 1
CheckFails(ms) == \E k \in 1..Len(ms) : GetSlotCount(ms, ms[k]) < 1

BadTermResponse == [code |-> StatusBadRequest, msg |-> "bad reservation time range"]

NoCapacityResponse == [code |-> StatusBadRequest, msg |-> "cannot reserve"]

BeginErrorResponse ==
    [code |-> StatusInternalServerError, msg |-> "failed to begin transaction"]

ErrorResponse == [code |-> StatusInternalServerError, msg |-> "failed"]

CreatedResponse == [code |-> StatusCreated, msg |-> "livestream"]

\* variant of the message that reports the first fetched slot whose count is
\* below 1 instead of the requested range
NoCapacityMessageSlot(ms, r) ==
    LET k == CHOOSE j \in 1..Len(ms) : GetSlotCount(ms, ms[j]) < 1
    IN <<TermStartAt, TermEndAt, ms[k].start_at, ms[k].end_at>>

\* the values formatted into the message of the capacity rejection (line
\* 560): the bounds of the term, then the bounds of the requested range
NoCapacityMessage(ms, r) == <<TermStartAt, TermEndAt, r.start_at, r.end_at>>

\* variant in which the livestream INSERT ran outside the transaction
\* (on dbConn), so that a rollback does not remove the row
RollbackKeepsLivestream(c) ==
    /\ tx' = [tx EXCEPT ![c] = EmptyTx]
    /\ locks' = [locks EXCEPT ![c] = {}]
    /\ livestreams' = IF tx[c].livestream = NoRow
                      THEN livestreams
                      ELSE livestreams \cup {tx[c].livestream}
    /\ UNCHANGED <<reservation_slots, livestream_tags>>

\* variant in which the end of a refused transaction gives one unit back to
\* every slot the call had locked
RollbackRestocks(c) ==
    /\ tx' = [tx EXCEPT ![c] = EmptyTx]
    /\ locks' = [locks EXCEPT ![c] = {}]
    /\ reservation_slots' =
          [i \in SlotIds |->
              IF i \in locks[c]
              THEN [reservation_slots[i] EXCEPT !.slot = @ + 1]
              ELSE reservation_slots[i]]
    /\ UNCHANGED <<livestreams, livestream_tags>>

\* defer tx.Rollback(): the transaction's writes are dropped, its locks freed
Rollback(c) ==
    /\ tx' = [tx EXCEPT ![c] = EmptyTx]
    /\ locks' = [locks EXCEPT ![c] = {}]
    /\ UNCHANGED tables

\* variant without the term check of line 545 in front of the locking read:
\* every request whose transaction has begun goes on to the SELECT
BeginValidatesLater(c) ==
    /\ pc[c] = "idle"
    /\ \A d \in Calls : d < c => pc[d] # "idle"
    /\ \E r \in Requests(c) :
          /\ req' = [req EXCEPT ![c] = r]
          /\ \/ /\ pc' = [pc EXCEPT ![c] = "done"]
                /\ response' = [response EXCEPT ![c] = BeginErrorResponse]
             \/ /\ pc' = [pc EXCEPT ![c] = "select"]
                /\ UNCHANGED response
    /\ UNCHANGED <<tables, auto_increment, initial_slot, session, query, body, viewers, locks, slots, tx, iconHashCache, accounts>>

\* lines 513-547: decode the request, begin the transaction (BeginTxx may
\* fail: 500), then check the term
Begin(c) ==
    /\ pc[c] = "idle"
    /\ \A d \in Calls : d < c => pc[d] # "idle"
    /\ \E r \in Requests(c) :
          /\ req' = [req EXCEPT ![c] = r]
          /\ \/ /\ pc' = [pc EXCEPT ![c] = "done"]
                /\ response' = [response EXCEPT ![c] = BeginErrorResponse]
             \/ IF OutOfTerm(r)
                THEN /\ pc' = [pc EXCEPT ![c] = "done"]
                     /\ response' = [response EXCEPT ![c] = BadTermResponse]
                ELSE /\ pc' = [pc EXCEPT ![c] = "select"]
                     /\ UNCHANGED response
    /\ UNCHANGED <<tables, auto_increment, initial_slot, session, query, body, viewers, locks, slots, tx, iconHashCache, accounts>>

\* variant of the lock scope: the locking read scans the whole table (no
\* usable index on start_at, end_at) and locks every row it scans
LockScopeTable(c) == SlotIds

\* ids of the rows the SELECT ... FOR UPDATE of call c locks: the rows it
\* returns (which rows InnoDB locks besides them depends on the indexes of
\* reservation_slots, whose CREATE TABLE is not part of the sources)
LockScope(c) == SelectIds(c)

\* variant in which the scan direction of the locking read depends on the
\* call: even calls take the matching row with the largest primary key first
NextRowByCall(c) ==
    CHOOSE j \in LockScope(c) \ locks[c] :
        \A k \in LockScope(c) \ locks[c] : IF c % 2 = 0 THEN j >= k ELSE j <= k

\* the row the locking read of call c takes next: the row with the smallest
\* primary key among those it has not locked yet
NextRow(c) ==
    CHOOSE j \in LockScope(c) \ locks[c] : \A k \in LockScope(c) \ locks[c] : j <= k

\* line 552, one row of the locking read: the next row in primary key order
\* is locked (waiting while another transaction holds it) and, when it
\* matches the WHERE clause, read
SelectForUpdate(c) ==
    /\ pc[c] = "select"
    /\ LockScope(c) \ locks[c] # {}
    /\ LET i == NextRow(c)
       IN /\ ~RowLocked(c, i)
          /\ locks' = [locks EXCEPT ![c] = @ \cup {i}]
          /\ slots' = [slots EXCEPT ![c] =
                          IF i \in SelectIds(c) THEN Append(@, RowSeenBy(c, i)) ELSE @]
    /\ UNCHANGED <<tables, auto_increment, initial_slot, session, query, body, viewers, pc, req, tx, response, iconHashCache, accounts>>

\* variant of the capacity check that also refuses a user who already owns
\* a committed livestream in the requested range
CheckOnePerUser(c) ==
    /\ pc[c] = "select"
    /\ LockScope(c) \ locks[c] = {}
    /\ IF \/ CheckFails(slots[c])
          \/ \E l \in livestreams :
                /\ l.user_id = req[c].user_id
                /\ l.start_at < req[c].end_at /\ req[c].start_at < l.end_at
       THEN /\ pc' = [pc EXCEPT ![c] = "done"]
            /\ response' = [response EXCEPT ![c] = NoCapacityResponse]
            /\ body' = [body EXCEPT ![c] = NoCapacityMessage(slots[c], req[c])]
            /\ Rollback(c)
       ELSE /\ pc' = [pc EXCEPT ![c] = "update"]
            /\ UNCHANGED <<response, body, tx, locks, tables>>
    /\ UNCHANGED <<auto_increment, initial_slot, session, query, viewers, req, slots, iconHashCache, accounts>>

\* variant in which the locking read ran on dbConn instead of tx: its row
\* locks end with the statement, before the UPDATE
CheckReleasesLocks(c) ==
    /\ pc[c] = "select"
    /\ LockScope(c) \ locks[c] = {}
    /\ IF CheckFails(slots[c])
       THEN /\ pc' = [pc EXCEPT ![c] = "done"]
            /\ response' = [response EXCEPT ![c] = NoCapacityResponse]
            /\ body' = [body EXCEPT ![c] = NoCapacityMessage(slots[c], req[c])]
            /\ Rollback(c)
       ELSE /\ pc' = [pc EXCEPT ![c] = "update"]
            /\ locks' = [locks EXCEPT ![c] = {}]
            /\ UNCHANGED <<response, body, tx, tables>>
    /\ UNCHANGED <<auto_increment, initial_slot, session, query, viewers, req, slots, iconHashCache, accounts>>

\* lines 552-562: the locking read has returned every matching row; the
\* capacity check over the fetched slots
Check(c) ==
    /\ pc[c] = "select"
    /\ LockScope(c) \ locks[c] = {}
    /\ IF CheckFails(slots[c])
       THEN /\ pc' = [pc EXCEPT ![c] = "done"]
            /\ response' = [response EXCEPT ![c] = NoCapacityResponse]
            /\ body' = [body EXCEPT ![c] = NoCapacityMessage(slots[c], req[c])]
            /\ Rollback(c)
       ELSE /\ pc' = [pc EXCEPT ![c] = "update"]
            /\ UNCHANGED <<response, body, tx, locks, tables>>
    /\ UNCHANGED <<auto_increment, initial_slot, session, query, viewers, req, slots, iconHashCache, accounts>>

\* ids of the rows the UPDATE of call c changes
UpdateIds(c) == {i \in SlotIds : UpdateWhere(reservation_slots[i], req[c])}

\* lines 576-578: UPDATE reservation_slots SET slot = slot - 1 WHERE ...
\* (the statement waits while another transaction holds a row it changes)
Update(c) ==
    /\ pc[c] = "update"
    /\ \A i \in UpdateIds(c) : ~RowLocked(c, i)
    /\ tx' = [tx EXCEPT ![c].updated = UpdateIds(c)]
    /\ locks' = [locks EXCEPT ![c] = @ \cup UpdateIds(c)]
    /\ pc' = [pc EXCEPT ![c] = "insert"]
    /\ UNCHANGED <<tables, auto_increment, initial_slot, session, query, body, viewers, req, slots, response, iconHashCache, accounts>>

\* variant in which the id of the new row is computed from the number of
\* committed rows instead of the AUTO_INCREMENT counter
InsertLivestreamRowCount(c) ==
    /\ pc[c] = "insert"
    /\ tx' = [tx EXCEPT ![c].livestream =
                 [id |-> Cardinality(livestreams) + 1, user_id |-> req[c].user_id,
                  title |-> req[c].title, description |-> req[c].description,
                  playlist_url |-> req[c].playlist_url,
                  thumbnail_url |-> req[c].thumbnail_url,
                  start_at |-> req[c].start_at, end_at |-> req[c].end_at]]
    /\ auto_increment' = auto_increment + 1
    /\ pc' = [pc EXCEPT ![c] = "tags"]
    /\ UNCHANGED <<tables, initial_slot, session, query, body, viewers, req, locks, slots, response, iconHashCache, accounts>>

\* lines 564-589: INSERT INTO livestreams, LastInsertId
InsertLivestream(c) ==
    /\ pc[c] = "insert"
    /\ tx' = [tx EXCEPT ![c].livestream =
                 [id |-> auto_increment, user_id |-> req[c].user_id,
                  title |-> req[c].title, description |-> req[c].description,
                  playlist_url |-> req[c].playlist_url,
                  thumbnail_url |-> req[c].thumbnail_url,
                  start_at |-> req[c].start_at, end_at |-> req[c].end_at]]
    /\ auto_increment' = auto_increment + 1
    /\ pc' = [pc EXCEPT ![c] = "tags"]
    /\ UNCHANGED <<tables, initial_slot, session, query, body, viewers, req, locks, slots, response, iconHashCache, accounts>>

\* variant of the tag loop that stops after the first requested tag
InsertTagsFirst(c) ==
    /\ pc[c] = "tags"
    /\ tx' = [tx EXCEPT ![c].tags =
                 [k \in 1..(IF Len(req[c].tags) > 1 THEN 1 ELSE Len(req[c].tags)) |->
                     [livestream_id |-> tx[c].livestream.id,
                      tag_id |-> req[c].tags[k]]]]
    /\ pc' = [pc EXCEPT ![c] = "commit"]
    /\ UNCHANGED <<tables, auto_increment, initial_slot, session, query, body, viewers, req, locks, slots, response, iconHashCache, accounts>>

\* lines 591-599: one INSERT INTO livestream_tags per requested tag
InsertTags(c) ==
    /\ pc[c] = "tags"
    /\ tx' = [tx EXCEPT ![c].tags =
                 [k \in 1..Len(req[c].tags) |->
                     [livestream_id |-> tx[c].livestream.id,
                      tag_id |-> req[c].tags[k]]]]
    /\ pc' = [pc EXCEPT ![c] = "commit"]
    /\ UNCHANGED <<tables, auto_increment, initial_slot, session, query, body, viewers, req, locks, slots, response, iconHashCache, accounts>>

\* variant that does not look at the error of tx.Commit(): 201 is returned
\* whether the transaction was committed or rolled back
CommitIgnoresError(c) ==
    /\ pc[c] = "commit"
    /\ \/ /\ reservation_slots' = [i \in SlotIds |-> RowSeenBy(c, i)]
          /\ livestreams' = livestreams \cup {tx[c].livestream}
          /\ livestream_tags' = livestream_tags \o tx[c].tags
       \/ UNCHANGED tables
    /\ tx' = [tx EXCEPT ![c] = EmptyTx]
    /\ locks' = [locks EXCEPT ![c] = {}]
    /\ pc' = [pc EXCEPT ![c] = "done"]
    /\ response' = [response EXCEPT ![c] = CreatedResponse]
    /\ FillIcons({req[c].user_id})
    /\ UNCHANGED <<auto_increment, initial_slot, session, query, body, viewers, req, slots, accounts>>

\* lines 601-610: fillLivestreamResponse (which looks up the icon hash of the
\* owner), tx.Commit, 201 Created
Commit(c) ==
    /\ pc[c] = "commit"
    /\ reservation_slots' = [i \in SlotIds |-> RowSeenBy(c, i)]
    /\ livestreams' = livestreams \cup {tx[c].livestream}
    /\ livestream_tags' = livestream_tags \o tx[c].tags
    /\ tx' = [tx EXCEPT ![c] = EmptyTx]
    /\ locks' = [locks EXCEPT ![c] = {}]
    /\ pc' = [pc EXCEPT ![c] = "done"]
    /\ response' = [response EXCEPT ![c] = CreatedResponse]
    /\ FillIcons({req[c].user_id})
    /\ UNCHANGED <<auto_increment, initial_slot, session, query, body, viewers, req, slots, accounts>>

\* a statement of the transaction fails or the request context is cancelled
\* (lines 552-608): the handler returns 500 and the deferred Rollback runs
\* (a failure behind the INSERTs may come after the icon hash was looked up)
Fail(c) ==
    /\ pc[c] \in {"select", "update", "insert", "tags", "commit"}
    /\ Rollback(c)
    /\ pc' = [pc EXCEPT ![c] = "done"]
    /\ response' = [response EXCEPT ![c] = ErrorResponse]
    /\ IF pc[c] = "commit"
       THEN FillIconsSome({req[c].user_id})
       ELSE UNCHANGED iconHashCache
    /\ UNCHANGED <<auto_increment, initial_slot, session, query, body, viewers, req, slots, accounts>>

Next ==
    \E c \in Calls :
        \/ Begin(c)
        \/ SelectForUpdate(c)
        \/ Check(c)
        \/ Update(c)
        \/ InsertLivestream(c)
        \/ InsertTags(c)
        \/ Commit(c)
        \/ Fail(c)

Spec == Init /\ [][Next]_vars

\* a step of call c other than a failure
Progress(c) ==
    \/ SelectForUpdate(c)
    \/ Check(c)
    \/ Update(c)
    \/ InsertLivestream(c)
    \/ InsertTags(c)
    \/ Commit(c)

\* every request runs in its own goroutine on its own database connection: a
\* call that can take a step takes it eventually, and a call waiting for a
\* row lock gets it once the holder has ended its transaction
FairSpec == Spec /\ \A c \in Calls : WF_vars(Progress(c))

\* ------------------------------------------------------------------------
\* The handlers that read the catalog: searchLivestreamsHandler,
\* getLivestreamHandler, getMyLivestreamsHandler, getUserLivestreamsHandler.
\* They run on dbConn without a transaction; every statement reads committed
\* rows.  A handler is one step: the rows of a committed livestream and its
\* livestream_tags rows appear together and never change afterwards, so the
\* statements of one handler cannot see two different versions of a row.
\* ------------------------------------------------------------------------

\* ids of the registered users (the users table is not written by these
\* handlers)
UserIds == {SessionUserID(c) : c \in Calls}

\* the username path parameter: the name of user n is modelled by n, and 0 is
\* a name nobody has registered
Usernames == {0} \cup UserIds

\* ids of the rows of the tags table
TagIds == {1, 2}

\* the tag query parameter: 0 is the empty string (no tag filter), the name
\* of tag n is modelled by n, and the largest value names no tag
TagNames == 0..3

\* the limit query parameter
LimitParams == {NoParam, TextParam} \cup {IntParam(n) : n \in (-1)..MaxLimit}

\* the livestream_id path parameter
IdParams == {TextParam} \cup {IntParam(n) : n \in 1..3}

OKResponse == [code |-> StatusOK, msg |-> "ok"]

BadLimitResponse ==
    [code |-> StatusBadRequest, msg |-> "limit query parameter must be integer"]

BadIdResponse ==
    [code |-> StatusBadRequest, msg |-> "livestream_id in path must be integer"]

NotFoundResponse == [code |-> StatusNotFound, msg |-> "not found"]

QueryErrorResponse == [code |-> StatusInternalServerError, msg |-> "statement failed"]

\* a request arrives for call c (requests are numbered in order of arrival)
Arrives(c) == pc[c] = "idle" /\ \A d \in Calls : d < c => pc[d] # "idle"

\* the handler of call c returns
Respond(c, q, resp, rows) ==
    /\ query' = [query EXCEPT ![c] = q]
    /\ response' = [response EXCEPT ![c] = resp]
    /\ body' = [body EXCEPT ![c] = rows]
    /\ pc' = [pc EXCEPT ![c] = "done"]

\* ids of the tags of a livestream: its livestream_tags rows joined with the
\* tags table (the response lists them in the order the database returns
\* them, which no ORDER BY fixes)
TagsOf(id) ==
    TagIds \cap
        {livestream_tags[k].tag_id :
            k \in {j \in 1..Len(livestream_tags) : livestream_tags[j].livestream_id = id}}

\* fillLivestreamResponseWithoutTx: the Livestream of the JSON body (the
\* owner is given by its id)
FillLivestream(l) ==
    [id |-> l.id, owner |-> l.user_id, title |-> l.title, tags |-> TagsOf(l.id),
     description |-> l.description, playlist_url |-> l.playlist_url,
     thumbnail_url |-> l.thumbnail_url, start_at |-> l.start_at, end_at |-> l.end_at]

\* fillLivestreamsResponseWithoutTx
FillLivestreams(ms) == [k \in 1..Len(ms) |-> FillLivestream(ms[k])]

\* variant of the ordering: ascending id
RECURSIVE OrderByIdAsc(_)
OrderByIdAsc(S) ==
    IF S = {} THEN <<>>
    ELSE LET m == CHOOSE l \in S : \A k \in S : l.id <= k.id
         IN <<m>> \o OrderByIdAsc(S \ {m})

\* ORDER BY id DESC
RECURSIVE OrderByIdDesc(_)
OrderByIdDesc(S) ==
    IF S = {} THEN <<>>
    ELSE LET m == CHOOSE l \in S : \A k \in S : l.id >= k.id
         IN <<m>> \o OrderByIdDesc(S \ {m})

\* LIMIT n
Limit(ms, n) == SubSeq(ms, 1, IF n < Len(ms) THEN n ELSE Len(ms))

\* the orders in which a SELECT without ORDER BY may return the rows S
Orderings(S) ==
    {ms \in [1..Cardinality(S) -> S] :
        \A i, j \in 1..Cardinality(S) : ms[i] = ms[j] => i = j}

\* lines 618-648: the livestreams that have a livestream_tags row with the
\* id of the tag of that name
TaggedLivestreams(tag) ==
    LET tagIDList == {t \in TagIds : t = tag}
        livestreamIDs ==
            {livestream_tags[k].livestream_id :
                k \in {j \in 1..Len(livestream_tags) :
                           livestream_tags[j].tag_id \in tagIDList}}
    IN {l \in livestreams : l.id \in livestreamIDs}

\* lines 617-663: the response and the livestreamModels of a search
SearchLivestreamModels(q) ==
    IF q.tag # 0
    THEN [response |-> OKResponse, rows |-> OrderByIdDesc(TaggedLivestreams(q.tag))]
    ELSE IF q.limit.kind = "none"
    THEN [response |-> OKResponse, rows |-> OrderByIdDesc(livestreams)]
    ELSE IF q.limit.kind = "text"
    THEN [response |-> BadLimitResponse, rows |-> <<>>]
    ELSE IF q.limit.n < 0
    THEN [response |-> QueryErrorResponse, rows |-> <<>>]
    ELSE [response |-> OKResponse,
          rows |-> Limit(OrderByIdDesc(livestreams), q.limit.n)]

\* what the handlers of this section leave alone
BookState ==
    <<tables, auto_increment, initial_slot, session, req, locks, slots, tx, accounts>>

\* searchLivestreamsHandler (LIMIT with a negative number is rejected by
\* MySQL; any statement may fail: 500)
SearchLivestreams(c) ==
    /\ Arrives(c)
    /\ \E tag \in TagNames, limit \in LimitParams :
          LET q == [NoQuery EXCEPT !.handler = "search", !.tag = tag, !.limit = limit]
              found == SearchLivestreamModels(q)
              owners == {found.rows[k].user_id : k \in 1..Len(found.rows)}
          IN IF found.response = BadLimitResponse
             THEN Respond(c, q, BadLimitResponse, <<>>) /\ UNCHANGED iconHashCache
             ELSE \/ Respond(c, q, QueryErrorResponse, <<>>) /\ FillIconsSome(owners)
                  \/ /\ Respond(c, q, found.response, FillLivestreams(found.rows))
                     /\ FillIcons(owners)
    /\ UNCHANGED <<BookState, viewers>>

\* getLivestreamHandler
GetLivestream(c) ==
    /\ Arrives(c)
    /\ \E id \in IdParams :
          LET q == [NoQuery EXCEPT !.handler = "get", !.id = id]
              found == {l \in livestreams : l.id = id.n}
              owners == {l.user_id : l \in found}
          IN IF id.kind # "int"
             THEN Respond(c, q, BadIdResponse, <<>>) /\ UNCHANGED iconHashCache
             ELSE \/ Respond(c, q, QueryErrorResponse, <<>>) /\ FillIconsSome(owners)
                  \/ IF found = {}
                     THEN Respond(c, q, NotFoundResponse, <<>>) /\ UNCHANGED iconHashCache
                     ELSE /\ \E l \in found :
                                Respond(c, q, OKResponse, <<FillLivestream(l)>>)
                          /\ FillIcons(owners)
    /\ UNCHANGED <<BookState, viewers>>

\* getMyLivestreamsHandler
GetMyLivestreams(c) ==
    /\ Arrives(c)
    /\ LET q == [NoQuery EXCEPT !.handler = "my"]
           mine == {l \in livestreams : l.user_id = session[c]}
           owners == {l.user_id : l \in mine}
       IN \/ Respond(c, q, QueryErrorResponse, <<>>) /\ FillIconsSome(owners)
          \/ /\ \E ms \in Orderings(mine) :
                   Respond(c, q, OKResponse, FillLivestreams(ms))
             /\ FillIcons(owners)
    /\ UNCHANGED <<BookState, viewers>>

\* getUserLivestreamsHandler
GetUserLivestreams(c) ==
    /\ Arrives(c)
    /\ \E name \in Usernames :
          LET q == [NoQuery EXCEPT !.handler = "user", !.username = name]
              theirs == {l \in livestreams : l.user_id = name}
              owners == {l.user_id : l \in theirs}
          IN \/ Respond(c, q, QueryErrorResponse, <<>>) /\ FillIconsSome(owners)
             \/ IF name \notin UserIds
                THEN Respond(c, q, NotFoundResponse, <<>>) /\ UNCHANGED iconHashCache
                ELSE /\ \E ms \in Orderings(theirs) :
                           Respond(c, q, OKResponse, FillLivestreams(ms))
                     /\ FillIcons(owners)
    /\ UNCHANGED <<BookState, viewers>>

\* ------------------------------------------------------------------------
\* enterLivestreamHandler and exitLivestreamHandler: one statement on
\* livestream_viewers_history in its own transaction (the created_at column,
\* the clock at the time of the INSERT, is left out)
\* ------------------------------------------------------------------------

\* enterLivestreamHandler: 500 when BeginTxx or the INSERT fails (nothing
\* changes) or when Commit fails (the AUTO_INCREMENT value is used up)
EnterLivestream(c) ==
    /\ Arrives(c)
    /\ \E id \in IdParams :
          LET q == [NoQuery EXCEPT !.handler = "enter", !.id = id]
          IN IF id.kind # "int"
             THEN Respond(c, q, BadIdResponse, <<>>) /\ UNCHANGED viewers
             ELSE \/ Respond(c, q, QueryErrorResponse, <<>>) /\ UNCHANGED viewers
                  \/ /\ Respond(c, q, QueryErrorResponse, <<>>)
                     /\ viewers_auto_increment' = viewers_auto_increment + 1
                     /\ UNCHANGED livestream_viewers_history
                  \/ /\ Respond(c, q, OKResponse, <<>>)
                     /\ livestream_viewers_history' =
                           livestream_viewers_history \cup
                              {[id |-> viewers_auto_increment,
                                user_id |-> session[c], livestream_id |-> id.n]}
                     /\ viewers_auto_increment' = viewers_auto_increment + 1
    /\ UNCHANGED <<BookState, iconHashCache>>

\* variant of exitLivestreamHandler that also gives one unit of capacity
\* back to the slots of the livestream that is left
ExitLivestreamRestocks(c) ==
    /\ Arrives(c)
    /\ \E id \in IdParams :
          LET q == [NoQuery EXCEPT !.handler = "exit", !.id = id]
              left == {l \in livestreams : l.id = id.n}
          IN IF id.kind # "int"
             THEN /\ Respond(c, q, BadIdResponse, <<>>)
                  /\ UNCHANGED <<viewers, reservation_slots>>
             ELSE \/ /\ Respond(c, q, QueryErrorResponse, <<>>)
                     /\ UNCHANGED <<viewers, reservation_slots>>
                  \/ /\ Respond(c, q, OKResponse, <<>>)
                     /\ livestream_viewers_history' =
                           {h \in livestream_viewers_history :
                               ~(h.user_id = session[c] /\ h.livestream_id = id.n)}
                     /\ reservation_slots' =
                           [i \in SlotIds |->
                               IF \E l \in left : SelectWhere(reservation_slots[i], l)
                               THEN [reservation_slots[i] EXCEPT !.slot = @ + 1]
                               ELSE reservation_slots[i]]
                     /\ UNCHANGED viewers_auto_increment
    /\ UNCHANGED <<livestreams, livestream_tags, auto_increment, initial_slot,
                   session, req, locks, slots, tx, iconHashCache, accounts>>

\* variant of exitLivestreamHandler that deletes one row only, the latest
\* of the user on the livestream
ExitLivestreamLatest(c) ==
    /\ Arrives(c)
    /\ \E id \in IdParams :
          LET q == [NoQuery EXCEPT !.handler = "exit", !.id = id]
              mine == {h \in livestream_viewers_history :
                          h.user_id = session[c] /\ h.livestream_id = id.n}
          IN IF id.kind # "int"
             THEN Respond(c, q, BadIdResponse, <<>>) /\ UNCHANGED viewers
             ELSE \/ Respond(c, q, QueryErrorResponse, <<>>) /\ UNCHANGED viewers
                  \/ /\ Respond(c, q, OKResponse, <<>>)
                     /\ livestream_viewers_history' =
                           {h \in livestream_viewers_history :
                               h \notin mine \/ \E g \in mine : g.id > h.id}
                     /\ UNCHANGED viewers_auto_increment
    /\ UNCHANGED <<BookState, iconHashCache>>

\* exitLivestreamHandler: DELETE ... WHERE user_id = ? AND livestream_id = ?
ExitLivestream(c) ==
    /\ Arrives(c)
    /\ \E id \in IdParams :
          LET q == [NoQuery EXCEPT !.handler = "exit", !.id = id]
          IN IF id.kind # "int"
             THEN Respond(c, q, BadIdResponse, <<>>) /\ UNCHANGED viewers
             ELSE \/ Respond(c, q, QueryErrorResponse, <<>>) /\ UNCHANGED viewers
                  \/ /\ Respond(c, q, OKResponse, <<>>)
                     /\ livestream_viewers_history' =
                           {h \in livestream_viewers_history :
                               ~(h.user_id = session[c] /\ h.livestream_id = id.n)}
                     /\ UNCHANGED viewers_auto_increment
    /\ UNCHANGED <<BookState, iconHashCache>>

\* ------------------------------------------------------------------------
\* getLivecommentReportsHandler, getLivestreamStatisticsHandler and
\* getUserStatisticsHandler.  They read reactions, livecomments and
\* livecomment_reports, which only handlers outside these sources write:
\* the three tables are fixed rows here.  Emoji names are modelled by
\* numbers, ordered as the names are.
\* ------------------------------------------------------------------------

\* rows of reactions: one on livestream 1, by emoji 1
SeedReactions == {[id |-> 1, livestream_id |-> 1, emoji_name |-> 1]}

\* rows of livecomments: one on livestream 2, with tip 1
SeedLivecomments == {[id |-> 1, livestream_id |-> 2, tip |-> 1]}

\* rows of livecomment_reports: user 1 reported that livecomment
SeedLivecommentReports ==
    {[id |-> 1, user_id |-> 1, livestream_id |-> 2, livecomment_id |-> 1]}

ForbiddenResponse ==
    [code |-> StatusForbidden, msg |-> "can't get other streamer's livecomment reports"]

BadStatsResponse ==
    [code |-> StatusBadRequest, msg |-> "cannot get stats of not found"]

\* the users whose icon hash fillLivecommentReportResponseWithoutTx looks up
\* for a set of reports: the reporter, the author of the livecomment and the
\* owner of the livestream (the function is not part of the sources)
ReportUsers(reports) ==
    UNION {{r.user_id} \cup {l.user_id : l \in {k \in livestreams : k.id = r.livestream_id}} :
              r \in reports}

\* variant of getLivecommentReportsHandler without the comparison of the
\* livestream's user id with the session's
GetLivecommentReportsAnyUser(c) ==
    /\ Arrives(c)
    /\ \E id \in IdParams :
          LET q == [NoQuery EXCEPT !.handler = "reports", !.id = id]
              found == {l \in livestreams : l.id = id.n}
              reports == {r \in SeedLivecommentReports : r.livestream_id = id.n}
              filled == IF found # {} THEN ReportUsers(reports) ELSE {}
          IN IF id.kind # "int"
             THEN Respond(c, q, BadIdResponse, <<>>) /\ UNCHANGED iconHashCache
             ELSE \/ Respond(c, q, QueryErrorResponse, <<>>) /\ FillIconsSome(filled)
                  \/ /\ found # {}
                     /\ \E ms \in Orderings(reports) : Respond(c, q, OKResponse, ms)
                     /\ FillIcons(filled)
    /\ UNCHANGED <<BookState, viewers>>

\* getLivecommentReportsHandler: a livestream that does not exist makes
\* GetContext fail, which the handler answers with 500
GetLivecommentReports(c) ==
    /\ Arrives(c)
    /\ \E id \in IdParams :
          LET q == [NoQuery EXCEPT !.handler = "reports", !.id = id]
              found == {l \in livestreams : l.id = id.n}
              reports == {r \in SeedLivecommentReports : r.livestream_id = id.n}
              mine == \A l \in found : l.user_id = session[c]
              filled == IF found # {} /\ mine THEN ReportUsers(reports) ELSE {}
          IN IF id.kind # "int"
             THEN Respond(c, q, BadIdResponse, <<>>) /\ UNCHANGED iconHashCache
             ELSE \/ Respond(c, q, QueryErrorResponse, <<>>) /\ FillIconsSome(filled)
                  \/ /\ found # {}
                     /\ IF ~mine
                        THEN /\ Respond(c, q, ForbiddenResponse, <<>>)
                             /\ UNCHANGED iconHashCache
                        ELSE /\ \E ms \in Orderings(reports) :
                                   Respond(c, q, OKResponse, ms)
                             /\ FillIcons(filled)
    /\ UNCHANGED <<BookState, viewers>>

RECURSIVE SumTips(_)
SumTips(S) ==
    IF S = {} THEN 0
    ELSE LET m == CHOOSE x \in S : TRUE IN m.tip + SumTips(S \ {m})

\* IFNULL(MAX(tip), 0)
MaxTip(S) == IF S = {} THEN 0 ELSE (CHOOSE x \in S : \A y \in S : x.tip >= y.tip).tip

ReactionsOf(ids) == {r \in SeedReactions : r.livestream_id \in ids}

LivecommentsOf(ids) == {m \in SeedLivecomments : m.livestream_id \in ids}

\* variant in which the lower key wins a tie of scores
RankingLessTieReversed(a, b) ==
    IF a.score = b.score THEN a.key > b.key ELSE a.score < b.score

\* LivestreamRanking.Less and UserRanking.Less: by score, then by key
RankingLess(a, b) ==
    IF a.score = b.score THEN a.key < b.key ELSE a.score < b.score

\* sort.Sort: the entries in ascending order
RECURSIVE SortRanking(_)
SortRanking(S) ==
    IF S = {} THEN <<>>
    ELSE LET m == CHOOSE a \in S : \A b \in S \ {a} : RankingLess(a, b)
         IN <<m>> \o SortRanking(S \ {m})

\* the loop of lines 391-398 and 246-253: walk the ranking from its end
RECURSIVE RankFrom(_, _, _, _)
RankFrom(ranking, i, key, rank) ==
    IF i < 1 THEN rank
    ELSE IF ranking[i].key = key THEN rank
    ELSE RankFrom(ranking, i - 1, key, rank + 1)

\* lines 345-398
LivestreamRank(id) ==
    LET ranking ==
            SortRanking({[key |-> l.id,
                          score |-> Cardinality(ReactionsOf({l.id}))
                                      + SumTips(LivecommentsOf({l.id}))] :
                            l \in livestreams})
    IN RankFrom(ranking, Len(ranking), id, 1)

\* getLivestreamStatisticsHandler
GetLivestreamStatistics(c) ==
    /\ Arrives(c)
    /\ \E id \in IdParams :
          LET q == [NoQuery EXCEPT !.handler = "livestream statistics", !.id = id]
              found == {l \in livestreams : l.id = id.n}
          IN IF id.kind # "int"
             THEN Respond(c, q, BadIdResponse, <<>>)
             ELSE \/ Respond(c, q, QueryErrorResponse, <<>>)
                  \/ IF found = {}
                     THEN Respond(c, q, BadStatsResponse, <<>>)
                     ELSE Respond(c, q, OKResponse,
                            <<[rank |-> LivestreamRank(id.n),
                               viewers_count |->
                                   Cardinality({h \in livestream_viewers_history :
                                                   h.livestream_id = id.n}),
                               max_tip |-> MaxTip(LivecommentsOf({id.n})),
                               total_reactions |-> Cardinality(ReactionsOf({id.n})),
                               total_reports |->
                                   Cardinality({r \in SeedLivecommentReports :
                                                   r.livestream_id = id.n})]>>)
    /\ UNCHANGED <<BookState, viewers, iconHashCache>>

\* ids of the livestreams of a user
LivestreamsOf(u) == {l.id : l \in {k \in livestreams : k.user_id = u}}

\* lines 191-253
UserRank(u) ==
    LET ranking ==
            SortRanking({[key |-> v,
                          score |-> Cardinality(ReactionsOf(LivestreamsOf(v)))
                                      + SumTips(LivecommentsOf(LivestreamsOf(v)))] :
                            v \in UserIds})
    IN RankFrom(ranking, Len(ranking), u, 1)

\* lines 296-310: GROUP BY emoji_name ORDER BY COUNT(*) DESC, emoji_name DESC
\* LIMIT 1 (0 when the user has no reaction: the empty string)
FavoriteEmoji(u) ==
    LET rs == ReactionsOf(LivestreamsOf(u))
        count(e) == Cardinality({r \in rs : r.emoji_name = e})
        names == {r.emoji_name : r \in rs}
    IN IF names = {} THEN 0
       ELSE CHOOSE e \in names :
               \A f \in names \ {e} :
                   count(e) > count(f) \/ (count(e) = count(f) /\ e > f)

\* getUserStatisticsHandler
GetUserStatistics(c) ==
    /\ Arrives(c)
    /\ \E name \in Usernames :
          LET q == [NoQuery EXCEPT !.handler = "user statistics", !.username = name]
              mine == LivestreamsOf(name)
          IN \/ Respond(c, q, QueryErrorResponse, <<>>)
             \/ IF name \notin UserIds
                THEN Respond(c, q, BadStatsResponse, <<>>)
                ELSE Respond(c, q, OKResponse,
                       <<[rank |-> UserRank(name),
                          viewers_count |->
                              Cardinality({h \in livestream_viewers_history :
                                              h.livestream_id \in mine}),
                          total_reactions |-> Cardinality(ReactionsOf(mine)),
                          total_livecomments |-> Cardinality(LivecommentsOf(mine)),
                          total_tip |-> SumTips(LivecommentsOf(mine)),
                          favorite_emoji |-> FavoriteEmoji(name)]>>)
    /\ UNCHANGED <<BookState, viewers, iconHashCache>>

\* ------------------------------------------------------------------------
\* All handlers together, on a catalog that already holds livestreams
\* ------------------------------------------------------------------------

\* a livestreams row as reserveLivestreamHandler inserts it, for a request
\* of the given user for slot number i
SeedLivestream(id, user, i) ==
    [id |-> id, user_id |-> user,
     title |-> RequestText(0, "title"),
     description |-> RequestText(0, "description"),
     playlist_url |-> RequestText(0, "playlist_url"),
     thumbnail_url |-> RequestText(0, "thumbnail_url"),
     start_at |-> Instant(2 * (i - 1)), end_at |-> Instant(2 * i)]

\* the catalog after two reservations: user 1 holds slot 1 with tags 1 and
\* 2, user 2 holds slot 2 with tag 1
SeedLivestreams == {SeedLivestream(1, 1, 1), SeedLivestream(2, 2, 2)}

SeedLivestreamTags ==
    <<[livestream_id |-> 1, tag_id |-> 1], [livestream_id |-> 1, tag_id |-> 2],
      [livestream_id |-> 2, tag_id |-> 1]>>

InitCatalog ==
    /\ \E cap \in 1..MaxSlot :
          /\ reservation_slots =
                [i \in SlotIds |->
                    [InitialSlots(cap)[i] EXCEPT
                        !.slot = IF i \in {1, 2} THEN @ - 1 ELSE @]]
          /\ initial_slot = [i \in SlotIds |-> IF i \in {1, 2} THEN cap - 1 ELSE cap]
    /\ livestreams = SeedLivestreams
    /\ livestream_tags = SeedLivestreamTags
    /\ auto_increment = Cardinality(SeedLivestreams) + 1
    /\ livestream_viewers_history = {}
    /\ viewers_auto_increment = 1
    /\ session \in {[c \in Calls |-> SessionUserID(c)], [c \in Calls |-> 1]}
    /\ InitCalls
    /\ InitAccounts

NextCatalog ==
    \/ Next
    \/ \E c \in Calls :
          \/ SearchLivestreams(c)
          \/ GetLivestream(c)
          \/ GetMyLivestreams(c)
          \/ GetUserLivestreams(c)
          \/ EnterLivestream(c)
          \/ ExitLivestream(c)
          \/ GetLivecommentReports(c)
          \/ GetLivestreamStatistics(c)
          \/ GetUserStatistics(c)

CatalogSpec == InitCatalog /\ [][NextCatalog]_vars

\* ------------------------------------------------------------------------
\* The viewers of the seeded catalog: enterLivestreamHandler,
\* exitLivestreamHandler and getLivestreamStatisticsHandler on a
\* livestream_viewers_history that earlier requests have filled
\* ------------------------------------------------------------------------

\* rows earlier enterLivestreamHandler calls have committed: user 1 entered
\* livestream 1 twice and livestream 2 once, user 2 entered livestream 1
PastViewers ==
    {[id |-> 1, user_id |-> 1, livestream_id |-> 1],
     [id |-> 2, user_id |-> 1, livestream_id |-> 1],
     [id |-> 3, user_id |-> 2, livestream_id |-> 1],
     [id |-> 4, user_id |-> 1, livestream_id |-> 2]}

InitPresence ==
    /\ reservation_slots = InitialSlots(MaxSlot)
    /\ initial_slot = [i \in SlotIds |-> MaxSlot]
    /\ livestreams = SeedLivestreams
    /\ livestream_tags = SeedLivestreamTags
    /\ auto_increment = Cardinality(SeedLivestreams) + 1
    /\ livestream_viewers_history = PastViewers
    /\ viewers_auto_increment = Cardinality(PastViewers) + 1
    /\ session \in {[c \in Calls |-> SessionUserID(c)], [c \in Calls |-> 1]}
    /\ InitCalls
    /\ InitAccounts

NextPresence ==
    \E c \in Calls :
        \/ EnterLivestream(c)
        \/ ExitLivestream(c)
        \/ GetLivestreamStatistics(c)

PresenceSpec == InitPresence /\ [][NextPresence]_vars

\* ------------------------------------------------------------------------
\* postIconHandler and getIconHashCache.  A postIconHandler call runs its
\* DELETE and INSERT in a transaction of its own (InnoDB, REPEATABLE READ,
\* the isolation level of a transaction begun with nil options).  The DELETE
\* is a locking read through the index idx_02(user_id): it locks the records
\* of the user it finds and the gap they are in; gap locks of different
\* transactions do not exclude each other, but an INSERT into a gap waits
\* for every other transaction's lock on that gap.  (A gap lock may also
\* cover neighbouring users; only the waits among calls of one user are
\* modelled.)  A getIconHashCache call is any call of that function: by
\* getIconHandler, or by a handler that fills a user.
\* ------------------------------------------------------------------------

\* what the handlers of user_handler.go leave alone
handlerState ==
    <<tables, auto_increment, initial_slot, session, req, locks, slots, tx,
      pc, response, query, body, viewers, logins>>

\* req.Image of call p
PostImage(p) == p

\* call p is inside its transaction
InPostTx(p) == post[p].pc \in {"delete", "insert", "commit"}

\* another transaction holds a lock on an index record of user u: it has
\* deleted a row of u or inserted one, and has not ended
RecordLocked(p, u) ==
    \E q \in Posts \ {p} :
        /\ InPostTx(q)
        /\ post[q].user = u
        /\ (post[q].deleted # {} \/ post[q].inserted # NoIcon)

\* variant without gap locks (READ COMMITTED)
NoGapLock(p) == FALSE

\* another transaction holds a gap lock on the index range of the user of p
GapLocked(p) ==
    \E q \in Posts \ {p} : InPostTx(q) /\ post[q].gap /\ post[q].user = post[p].user

\* lines 139-160: session, decode, BeginTxx (500 when it fails)
PostBegin(p) ==
    /\ post[p].pc = "idle"
    /\ \A q \in Posts : q < p => post[q].pc # "idle"
    /\ \E u \in SeedUserIds :
          \/ post' = [post EXCEPT ![p] =
                         [NoPost EXCEPT !.pc = "done", !.user = u,
                                        !.image = PostImage(p),
                                        !.code = StatusInternalServerError]]
          \/ post' = [post EXCEPT ![p] =
                         [NoPost EXCEPT !.pc = "delete", !.user = u,
                                        !.image = PostImage(p)]]
    /\ UNCHANGED <<handlerState, registry, now, iconHashCache, icons,
                   icons_auto_increment, hashcall, returned>>

\* line 162: DELETE FROM icons WHERE user_id = ?
PostDelete(p) ==
    /\ post[p].pc = "delete"
    /\ ~RecordLocked(p, post[p].user)
    /\ post' = [post EXCEPT ![p].pc = "insert",
                            ![p].deleted = {r.id : r \in {k \in icons : k.user_id = post[p].user}},
                            ![p].gap = TRUE]
    /\ UNCHANGED <<handlerState, registry, now, iconHashCache, icons,
                   icons_auto_increment, hashcall, returned>>

\* lines 166-174: INSERT INTO icons, LastInsertId
PostInsert(p) ==
    /\ post[p].pc = "insert"
    /\ ~GapLocked(p)
    /\ post' = [post EXCEPT ![p].pc = "commit",
                            ![p].inserted = [id |-> icons_auto_increment,
                                             user_id |-> post[p].user,
                                             image |-> post[p].image]]
    /\ icons_auto_increment' = icons_auto_increment + 1
    /\ UNCHANGED <<handlerState, registry, now, iconHashCache, icons, hashcall, returned>>

\* line 176: tx.Commit
PostCommit(p) ==
    /\ post[p].pc = "commit"
    /\ icons' = {r \in icons : r.id \notin post[p].deleted} \cup {post[p].inserted}
    /\ post' = [post EXCEPT ![p].pc = "committed", ![p].deleted = {}, ![p].gap = FALSE]
    /\ UNCHANGED <<handlerState, registry, now, iconHashCache,
                   icons_auto_increment, hashcall, returned>>

\* lines 181-185: iconHashCache.Delete(userID), 201 Created
PostReturn(p) ==
    /\ post[p].pc = "committed"
    /\ iconHashCache' = CacheDelete(iconHashCache, post[p].user)
    /\ post' = [post EXCEPT ![p].pc = "done", ![p].code = StatusCreated]
    /\ returned' = [returned EXCEPT ![post[p].user] = @ + 1]
    /\ UNCHANGED <<handlerState, registry, now, icons, icons_auto_increment, hashcall>>

\* a statement of the transaction fails (a deadlock among the lock waits
\* included: InnoDB rolls one of the transactions back) or the request is
\* cancelled: 500, and the deferred Rollback runs
PostFail(p) ==
    /\ InPostTx(p)
    /\ post' = [post EXCEPT ![p].pc = "done", ![p].deleted = {},
                            ![p].inserted = NoIcon, ![p].gap = FALSE,
                            ![p].code = StatusInternalServerError]
    /\ UNCHANGED <<handlerState, registry, now, iconHashCache, icons,
                   icons_auto_increment, hashcall, returned>>

\* getIconHashCache, line 508, and IconHashCache.Get, line 475: m.data.Load
HashLoad(g) ==
    /\ hashcall[g].pc = "idle"
    /\ \A f \in Gets : f < g => hashcall[f].pc # "idle"
    /\ \E u \in SeedUserIds :
          hashcall' = [hashcall EXCEPT ![g] =
                          [NoHashCall EXCEPT !.pc = "check", !.user = u,
                                             !.loaded = Load(u),
                                             !.after = returned[u]]]
    /\ UNCHANGED <<handlerState, registry, now, iconHashCache, icons,
                   icons_auto_increment, post, returned>>

\* IconHashCache.Get, lines 476-487, and lines 509-511: no entry is a miss;
\* an expired entry is deleted and is a miss; otherwise the value is returned
HashCheck(g) ==
    /\ hashcall[g].pc = "check"
    /\ IF hashcall[g].loaded = {}
       THEN /\ hashcall' = [hashcall EXCEPT ![g].pc = "select"]
            /\ UNCHANGED iconHashCache
       ELSE \E e \in hashcall[g].loaded :
               IF After(now, e.expiration)
               THEN /\ iconHashCache' = CacheDelete(iconHashCache, hashcall[g].user)
                    /\ hashcall' = [hashcall EXCEPT ![g].pc = "select"]
               ELSE /\ hashcall' = [hashcall EXCEPT ![g].pc = "done",
                                                    ![g].hash = e.value]
                    /\ UNCHANGED iconHashCache
    /\ UNCHANGED <<handlerState, registry, now, icons, icons_auto_increment,
                   post, returned>>

\* lines 513-519: SELECT image FROM icons WHERE user_id = ? (noimage when
\* there is no row; any other error is returned)
HashSelect(g) ==
    /\ hashcall[g].pc = "select"
    /\ \/ hashcall' = [hashcall EXCEPT ![g].pc = "done", ![g].err = TRUE]
       \/ \E img \in IconImages(hashcall[g].user) :
             hashcall' = [hashcall EXCEPT ![g].pc = "set", ![g].image = img]
    /\ UNCHANGED <<handlerState, registry, now, iconHashCache, icons,
                   icons_auto_increment, post, returned>>

\* lines 521-525: the hash of the image is stored and returned
HashSet(g) ==
    /\ hashcall[g].pc = "set"
    /\ iconHashCache' =
          CacheSet(iconHashCache, hashcall[g].user, Sha256(hashcall[g].image))
    /\ hashcall' = [hashcall EXCEPT ![g].pc = "done",
                                    ![g].hash = Sha256(hashcall[g].image)]
    /\ UNCHANGED <<handlerState, registry, now, icons, icons_auto_increment,
                   post, returned>>

\* a second passes
Tick ==
    /\ now < MaxTime
    /\ now' = now + 1
    /\ UNCHANGED <<handlerState, registry, iconHashCache, iconState>>

InitIcon == Init /\ initial_slot = [i \in SlotIds |-> 1]

NextIcon ==
    \/ \E p \in Posts :
          \/ PostBegin(p)
          \/ PostDelete(p)
          \/ PostInsert(p)
          \/ PostCommit(p)
          \/ PostReturn(p)
          \/ PostFail(p)
    \/ \E g \in Gets :
          \/ HashLoad(g)
          \/ HashCheck(g)
          \/ HashSelect(g)
          \/ HashSet(g)
    \/ Tick

IconSpec == InitIcon /\ [][NextIcon]_vars

\* ------------------------------------------------------------------------
\* registerHandler (user_handler.go).  A registration is one transaction:
\* INSERT INTO users, INSERT INTO themes, then records.Store on the
\* in-memory DNS map, fillUserResponse and Commit.  users.name is UNIQUE
\* (line 303): an INSERT of a committed name fails, and an INSERT of a name
\* another transaction has inserted and not yet committed waits for it.
\* Names are numbers: pipe is the reserved name, the seed users have the
\* names 1 and 2.
\* ------------------------------------------------------------------------

\* the names a request may carry: reserved, taken, and one that is free
RegNames == {pipe} \cup {u.name : u \in SeedUsers} \cup {NewName}

\* call r is inside its transaction
InRegTx(r) == reg[r].pc \in {"user", "theme", "store", "fill", "commit"}

\* another transaction has inserted the name and has not ended
NameLocked(r) ==
    \E q \in Regs \ {r} :
        InRegTx(q) /\ reg[q].user # NoUser /\ reg[q].user.name = reg[r].name

\* lines 224-242: decode (400), the reserved name (400), bcrypt and
\* BeginTxx (500)
RegisterBegin(r) ==
    /\ reg[r].pc = "idle"
    /\ \A q \in Regs : q < r => reg[q].pc # "idle"
    /\ \E name \in RegNames, dark \in BOOLEAN :
          \/ reg' = [reg EXCEPT ![r] =
                        [NoReg EXCEPT !.pc = "done", !.name = name,
                                      !.dark_mode = dark,
                                      !.code = StatusBadRequest]]
          \/ /\ name # pipe
             /\ \/ reg' = [reg EXCEPT ![r] =
                              [NoReg EXCEPT !.pc = "done", !.name = name,
                                            !.dark_mode = dark,
                                            !.code = StatusInternalServerError]]
                \/ reg' = [reg EXCEPT ![r] =
                              [NoReg EXCEPT !.pc = "user", !.name = name,
                                            !.dark_mode = dark]]
    /\ UNCHANGED <<handlerState, now, iconHashCache, iconState, users, themes,
                   users_auto_increment, themes_auto_increment, records>>

\* lines 251-261: INSERT INTO users and LastInsertId; a committed name is a
\* duplicate, and the statement fails with the id it drew used up
InsertUser(r) ==
    /\ reg[r].pc = "user"
    /\ ~NameLocked(r)
    /\ users_auto_increment' = users_auto_increment + 1
    /\ IF \E u \in users : u.name = reg[r].name
       THEN reg' = [reg EXCEPT ![r].pc = "done",
                               ![r].code = StatusInternalServerError]
       ELSE reg' = [reg EXCEPT ![r].pc = "theme",
                               ![r].user = [id |-> users_auto_increment,
                                            name |-> reg[r].name]]
    /\ UNCHANGED <<handlerState, now, iconHashCache, iconState, users, themes,
                   themes_auto_increment, records>>

\* lines 263-269: INSERT INTO themes
InsertTheme(r) ==
    /\ reg[r].pc = "theme"
    /\ reg' = [reg EXCEPT ![r].pc = "store",
                          ![r].theme = [id |-> themes_auto_increment,
                                        user_id |-> reg[r].user.id,
                                        dark_mode |-> reg[r].dark_mode]]
    /\ themes_auto_increment' = themes_auto_increment + 1
    /\ UNCHANGED <<handlerState, now, iconHashCache, iconState, users, themes,
                   users_auto_increment, records>>

\* line 271: records.Store(req.Name+".u.isucon.local.", ...)
StoreRecord(r) ==
    /\ reg[r].pc = "store"
    /\ records' = records \cup {DnsName(reg[r].name)}
    /\ reg' = [reg EXCEPT ![r].pc = "fill"]
    /\ UNCHANGED <<handlerState, now, iconHashCache, iconState, users, themes,
                   users_auto_increment, themes_auto_increment>>

\* lines 273-276: fillUserResponse reads the theme inside the transaction
\* and calls getIconHashCache for the new user
FillUser(r) ==
    /\ reg[r].pc = "fill"
    /\ FillIcons({reg[r].user.id})
    /\ reg' = [reg EXCEPT ![r].pc = "commit"]
    /\ UNCHANGED <<handlerState, now, iconState, users, themes,
                   users_auto_increment, themes_auto_increment, records>>

\* variant whose theme insert is not part of the transaction's commit
RegCommitUserOnly(r) ==
    /\ reg[r].pc = "commit"
    /\ users' = users \cup {reg[r].user}
    /\ reg' = [reg EXCEPT ![r].pc = "done", ![r].code = StatusCreated]
    /\ UNCHANGED <<handlerState, now, iconHashCache, iconState, themes,
                   users_auto_increment, themes_auto_increment, records>>

\* lines 278-282: tx.Commit, 201 Created
RegCommit(r) ==
    /\ reg[r].pc = "commit"
    /\ users' = users \cup {reg[r].user}
    /\ themes' = themes \cup {reg[r].theme}
    /\ reg' = [reg EXCEPT ![r].pc = "done", ![r].code = StatusCreated]
    /\ UNCHANGED <<handlerState, now, iconHashCache, iconState,
                   users_auto_increment, themes_auto_increment, records>>

\* a statement of the transaction fails (an insert, the statements of
\* fillUserResponse, the commit): 500, and the deferred Rollback drops the
\* rows the transaction inserted; nothing touches records
RegFail(r) ==
    /\ reg[r].pc \in {"user", "theme", "fill", "commit"}
    /\ reg' = [reg EXCEPT ![r].pc = "done", ![r].user = NoUser,
                          ![r].theme = NoTheme,
                          ![r].code = StatusInternalServerError]
    /\ IF reg[r].pc = "fill"
       THEN FillIconsSome({reg[r].user.id})
       ELSE UNCHANGED iconHashCache
    /\ UNCHANGED <<handlerState, now, iconState, users, themes,
                   users_auto_increment, themes_auto_increment, records>>

NextRegister ==
    \/ \E r \in Regs :
          \/ RegisterBegin(r)
          \/ InsertUser(r)
          \/ InsertTheme(r)
          \/ StoreRecord(r)
          \/ FillUser(r)
          \/ RegCommit(r)
          \/ RegFail(r)
    \/ Tick

RegisterSpec == InitIcon /\ [][NextRegister]_vars

\* ------------------------------------------------------------------------
\* loginHandler and verifyUserSession (user_handler.go).  A client holds a
\* cookie; loginHandler writes a session into it, and every handler that
\* is behind the session starts with verifyUserSession on the session of
\* the request.  An instant is <<seconds, half seconds>>; time.Time.Unix
\* drops the part below the second.
\* ------------------------------------------------------------------------

\* time.Now()
Time == <<now, nanos>>

\* time.Time.Unix
Unix(t) == t[1]

\* time.Time.Add of a whole number of seconds
Add(t, seconds) == <<t[1] + seconds, t[2]>>

\* the handlers whose first statement is verifyUserSession
AuthHandlers ==
    {"getUserStatisticsHandler", "getLivestreamStatisticsHandler",
     "reserveLivestreamHandler", "getMyLivestreamsHandler",
     "getUserLivestreamsHandler", "enterLivestreamHandler",
     "exitLivestreamHandler", "getLivestreamHandler",
     "getLivecommentReportsHandler", "postIconHandler", "getMeHandler",
     "getUserHandler"}

\* the session loginHandler saves for user u at instant t (created is the
\* instant of the login, kept for the properties; the cookie holds no such
\* value)
LoginSession(u, t) ==
    [err |-> FALSE,
     values |-> {"SESSIONID", "USERID", "USERNAME", "EXPIRES"},
     USERID |-> u.id,
     EXPIRES |-> Unix(Add(t, SessionTTL)),
     created |-> t]

\* variant that rejects a session in the second it expires
verifyUserSessionStrict(sess, t) ==
    IF sess.err THEN StatusUnauthorized
    ELSE IF "EXPIRES" \notin sess.values THEN StatusForbidden
    ELSE IF "USERID" \notin sess.values THEN StatusUnauthorized
    ELSE IF Unix(t) >= sess.EXPIRES THEN StatusUnauthorized
    ELSE 0

\* verifyUserSession at instant t: 0 for nil, else the status of the error
verifyUserSession(sess, t) ==
    IF sess.err THEN StatusUnauthorized
    ELSE IF "EXPIRES" \notin sess.values THEN StatusForbidden
    ELSE IF "USERID" \notin sess.values THEN StatusUnauthorized
    ELSE IF Unix(t) > sess.EXPIRES THEN StatusUnauthorized
    ELSE 0

\* loginHandler, answered 200: the user exists, the password matches and
\* session.Get succeeds (every other outcome, 400, 401 or 500, leaves the
\* cookie as it was)
Login(k) ==
    /\ ~cookies[k].err
    /\ \E u \in users : cookies' = [cookies EXCEPT ![k] = LoginSession(u, Time)]
    /\ UNCHANGED <<tables, auto_increment, initial_slot, session, req, locks,
                   slots, tx, pc, response, query, body, viewers,
                   iconHashCache, now, iconState, registry, nanos, visit>>

\* the client drops its cookie or sends one the store cannot decode
DropCookie(k) ==
    /\ \E c \in {NoSession, Garbled} :
          /\ c # cookies[k]
          /\ cookies' = [cookies EXCEPT ![k] = c]
    /\ UNCHANGED <<tables, auto_increment, initial_slot, session, req, locks,
                   slots, tx, pc, response, query, body, viewers,
                   iconHashCache, now, iconState, registry, nanos, visit>>

\* a request of client k to a handler behind the session arrives
Request(k) ==
    /\ visit[k].pc \in {"idle", "done"}
    /\ \E h \in AuthHandlers :
          visit' = [visit EXCEPT ![k] =
                       [NoVisit EXCEPT !.pc = "verify", !.handler = h,
                                       !.sess = cookies[k]]]
    /\ UNCHANGED <<tables, auto_increment, initial_slot, session, req, locks,
                   slots, tx, pc, response, query, body, viewers,
                   iconHashCache, now, iconState, registry, nanos, cookies>>

\* the handler's first statement: if err := verifyUserSession(c); err != nil
\* { return err }
Verify(k) ==
    /\ visit[k].pc = "verify"
    /\ LET err == verifyUserSession(visit[k].sess, Time)
       IN  visit' = [visit EXCEPT ![k].at = Time,
                                  ![k].err = err,
                                  ![k].code = err,
                                  ![k].pc = IF err = 0 THEN "serve" ELSE "done"]
    /\ UNCHANGED <<tables, auto_increment, initial_slot, session, req, locks,
                   slots, tx, pc, response, query, body, viewers,
                   iconHashCache, now, iconState, registry, nanos, cookies>>

\* the rest of the handler: it answers before its first statement on the
\* database (a parameter that does not parse) or after it
Serve(k) ==
    /\ visit[k].pc = "serve"
    /\ \/ visit' = [visit EXCEPT ![k].pc = "done",
                                  ![k].code = StatusBadRequest]
       \/ \E code \in {StatusOK, StatusInternalServerError} :
             visit' = [visit EXCEPT ![k].pc = "done", ![k].code = code,
                                    ![k].statements = 1]
    /\ UNCHANGED <<tables, auto_increment, initial_slot, session, req, locks,
                   slots, tx, pc, response, query, body, viewers,
                   iconHashCache, now, iconState, registry, nanos, cookies>>

\* half a second passes (within MaxSkew seconds of the start, and from one
\* second before to MaxSkew seconds after the hour)
HalfTick ==
    /\ \/ now < MaxSkew
       \/ now >= SessionTTL - 1 /\ now < SessionTTL + MaxSkew
    /\ nanos' = 1 - nanos
    /\ now' = now + nanos
    /\ UNCHANGED <<tables, auto_increment, initial_slot, session, req, locks,
                   slots, tx, pc, response, query, body, viewers,
                   iconHashCache, iconState, registry, cookies, visit>>

\* one second less than an hour passes
Sleep ==
    /\ now <= MaxSkew
    /\ now' = now + SessionTTL - 1
    /\ UNCHANGED <<tables, auto_increment, initial_slot, session, req, locks,
                   slots, tx, pc, response, query, body, viewers,
                   iconHashCache, iconState, registry, logins>>

NextSession ==
    \/ \E k \in Clients :
          \/ Login(k)
          \/ DropCookie(k)
          \/ Request(k)
          \/ Verify(k)
          \/ Serve(k)
    \/ HalfTick
    \/ Sleep

SessionSpec == InitIcon /\ [][NextSession]_vars

\* ------------------------------------------------------------------------
\* Vocabulary of the properties
\* ------------------------------------------------------------------------

Row(i) == reservation_slots[i]

\* the range [r.start_at, r.end_at) contains the whole interval of the slot
Covers(r, row) == r.start_at <= row.start_at /\ row.end_at <= r.end_at

\* the range [r.start_at, r.end_at) and the interval of the slot share an instant
Intersects(r, row) == r.start_at < row.end_at /\ row.start_at < r.end_at

Began(c) == pc[c] # "idle"

Done(c) == pc[c] = "done"

Created(c) == response[c] = CreatedResponse

InTerm(r) == r.start_at < TermEndAt /\ r.end_at > TermStartAt

\* ids of the rows held in the handler's variable slots
FetchedIds(c) == {slots[c][k].id : k \in 1..Len(slots[c])}

\* ------------------------------------------------------------------------
\* C1: for every slot, the number of committed livestreams whose range
\* intersects the slot's interval is at most the slot's initial capacity,
\* whatever the requests (aligned to slot boundaries or not).
\* ------------------------------------------------------------------------
C1_NoOverbooking ==
    \A i \in SlotIds :
        Cardinality({l \in livestreams : Intersects(l, Row(i))}) <= initial_slot[i]

\* ------------------------------------------------------------------------
\* C2: when every call covers slot i, there are at least as many calls as
\* the slot's initial capacity C, no other slot can run out and no call ended
\* in a storage failure, then exactly C calls have succeeded once all calls
\* have returned.
\* ------------------------------------------------------------------------
C2_Case(i) ==
    /\ \A c \in Calls :
          /\ Done(c)
          /\ response[c] \in {CreatedResponse, NoCapacityResponse}
          /\ Covers(req[c], Row(i))
    /\ MaxCalls >= initial_slot[i]
    /\ \A j \in SlotIds \ {i} :
          initial_slot[j] >= Cardinality({c \in Calls : Covers(req[c], Row(j))})

C2_ExactlyCapacity ==
    \A i \in SlotIds :
        C2_Case(i) => Cardinality({c \in Calls : Created(c)}) = initial_slot[i]

C2_Witness ==
    \E i \in SlotIds :
        /\ C2_Case(i)
        /\ initial_slot[i] < MaxCalls
        /\ \E c \in Calls : response[c] = NoCapacityResponse

\* ------------------------------------------------------------------------
\* C3: every slot's remaining capacity is its initial capacity minus the
\* number of committed calls that cover it, and is never negative (so no
\* decrement was applied to a slot at 0).
\* ------------------------------------------------------------------------
C3_Linearizable ==
    \A i \in SlotIds :
        /\ Row(i).slot =
              initial_slot[i]
                 - Cardinality({c \in Calls : Created(c) /\ Covers(req[c], Row(i))})
        /\ Row(i).slot >= 0

C3_Witness ==
    \E i \in SlotIds :
        /\ initial_slot[i] = 2
        /\ Row(i).slot = 0
        /\ Cardinality({c \in Calls : Created(c) /\ Covers(req[c], Row(i))}) = 2

\* ------------------------------------------------------------------------
\* C4: a call that covers a slot whose remaining capacity is 0 never goes on
\* to the UPDATE, and when it finishes its capacity check it is rejected with
\* the tables (reservation_slots, livestreams, livestream_tags) unchanged and
\* nothing left pending.
\* ------------------------------------------------------------------------
C4_CoversEmptySlot(c) == \E i \in SlotIds : Covers(req[c], Row(i)) /\ Row(i).slot = 0

C4_NeverProceeds ==
    \A c \in Calls :
        pc[c] \in {"update", "insert", "tags", "commit"} => ~C4_CoversEmptySlot(c)

C4_RejectStep ==
    \A c \in Calls :
        (/\ pc[c] = "select"
         /\ pc'[c] # "select"
         /\ response'[c].code # StatusInternalServerError
         /\ C4_CoversEmptySlot(c))
        => /\ pc'[c] = "done"
           /\ response'[c] = NoCapacityResponse
           /\ tables' = tables
           /\ tx'[c] = EmptyTx
           /\ locks'[c] = {}

C4_AllOrNothing == [](C4_NeverProceeds) /\ [][C4_RejectStep]_vars

\* a rejected call that covers two slots of which only one is at 0
C4_Witness ==
    \E c \in Calls :
        /\ response[c] = NoCapacityResponse
        /\ \E i, j \in SlotIds :
              /\ Covers(req[c], Row(i)) /\ Row(i).slot = 0
              /\ Covers(req[c], Row(j)) /\ Row(j).slot >= 1

C6_IsOutside(r) == r.end_at <= TermStartAt \/ r.start_at >= TermEndAt

C6_Handled(c) == pc[c] = "idle" /\ pc'[c] # "idle" /\ C6_IsOutside(req'[c])

C6_NoEffect(c) ==
    /\ pc'[c] = "done"
    /\ tables' = tables
    /\ locks' = locks
    /\ tx' = tx

C7_Scenario ==
    /\ \A i \in SlotIds : initial_slot[i] = 1
    /\ req[1].start_at = Instant(0) /\ req[1].end_at = Instant(4)
    /\ req[2].start_at = Instant(2) /\ req[2].end_at = Instant(6)
    /\ \A c \in Calls : c > 2 => ~Began(c)
    /\ \A c \in {1, 2} : Done(c) /\ response[c].code # StatusInternalServerError

\* as claimed: A succeeds, slots 1 and 2 reach 0, B is rejected whatever the
\* timing, slot 3 keeps capacity 1
C7_Original ==
    C7_Scenario =>
        /\ Created(1)
        /\ Row(1).slot = 0 /\ Row(2).slot = 0
        /\ response[2] = NoCapacityResponse
        /\ Row(3).slot = 1

\* amended: exactly one of A and B succeeds and the other is rejected for
\* capacity; when it is A, slots 1 and 2 are at 0 and slot 3 keeps capacity 1;
\* when it is B, slots 2 and 3 are at 0 and slot 1 keeps capacity 1
C7_OneWins ==
    C7_Scenario =>
        \/ /\ Created(1)
           /\ response[2] = NoCapacityResponse
           /\ Row(1).slot = 0 /\ Row(2).slot = 0 /\ Row(3).slot = 1
        \/ /\ Created(2)
           /\ response[1] = NoCapacityResponse
           /\ Row(1).slot = 1 /\ Row(2).slot = 0 /\ Row(3).slot = 0

C7_Witness == C7_Scenario /\ Created(1) /\ response[2] = NoCapacityResponse

\* ------------------------------------------------------------------------
\* C8: the slots a call locks, checks and decrements are exactly the slots
\* whose interval intersects [requestedStart, requestedEnd).
\* ------------------------------------------------------------------------
C8_LocksIntersecting ==
    \A c \in Calls :
        pc[c] \in {"insert", "tags", "commit"} =>
            LET hit == {i \in SlotIds : Intersects(req[c], Row(i))}
            IN /\ locks[c] = hit
               /\ FetchedIds(c) = hit
               /\ tx[c].updated = hit

\* ------------------------------------------------------------------------
\* C9: the step that commits a call decrements every slot the call covers by
\* exactly 1 and no other slot, adds exactly one livestream row, and the
\* slots decremented are the slots that were fetched and checked.
\* ------------------------------------------------------------------------
C9_Step ==
    \A c \in Calls :
        (~Created(c) /\ Created(c)') =>
            /\ \A i \in SlotIds :
                  Row(i)'.slot =
                     Row(i).slot - (IF Covers(req[c], Row(i)) THEN 1 ELSE 0)
            /\ livestreams \subseteq livestreams'
            /\ Cardinality(livestreams' \ livestreams) = 1
            /\ FetchedIds(c) = {i \in SlotIds : Row(i)'.slot # Row(i).slot}

C9_SuccessDecrements == [][C9_Step]_vars

C9_Witness ==
    \E c \in Calls :
        /\ Created(c)
        /\ Cardinality({i \in SlotIds : Covers(req[c], Row(i))}) = 2
        /\ Cardinality(FetchedIds(c)) = 2

\* ------------------------------------------------------------------------
\* C10: the step in which a call fails (500) changes no table and leaves
\* nothing pending and no lock; the livestream rows are exactly one per call
\* that returned 201 and every livestream_tags row belongs to a committed
\* livestream, so a retry runs against the capacity the failed call found.
\* ------------------------------------------------------------------------
C10_FailStep ==
    \A c \in Calls :
        (response[c] = NoResponse /\ response'[c].code = StatusInternalServerError) =>
            /\ tables' = tables
            /\ tx'[c] = EmptyTx
            /\ locks'[c] = {}

C10_NothingSurvives ==
    /\ Cardinality(livestreams) = Cardinality({c \in Calls : Created(c)})
    /\ \A c \in Calls :
          Created(c) =>
              \E l \in livestreams :
                  /\ l.user_id = req[c].user_id
                  /\ l.start_at = req[c].start_at
                  /\ l.end_at = req[c].end_at
    /\ \A k \in 1..Len(livestream_tags) :
          \E l \in livestreams : l.id = livestream_tags[k].livestream_id

C10_FailureLeavesNoEffect == [](C10_NothingSurvives) /\ [][C10_FailStep]_vars

\* call 1 failed after its INSERT (it used up id 1); call 2 retried the same
\* range and its livestream is the only row
C10_Witness ==
    /\ response[1] = ErrorResponse
    /\ Created(2)
    /\ req[2].start_at = req[1].start_at /\ req[2].end_at = req[1].end_at
    /\ \E l \in livestreams : l.id = 2
    /\ Cardinality(livestreams) = 1
    /\ \E i \in SlotIds : Row(i).slot = initial_slot[i] - 1

\* ------------------------------------------------------------------------
\* C11: under fair scheduling every call that has begun returns: it commits
\* (201), is rejected (400), or fails on the storage (500); no set of calls
\* is left waiting for each other's row locks, whatever the ranges.
\* ------------------------------------------------------------------------
C11_Returned(c) ==
    /\ Done(c)
    /\ response[c] \in {CreatedResponse, BadTermResponse, NoCapacityResponse,
                        BeginErrorResponse, ErrorResponse}

C11_NoDeadlock == \A c \in Calls : Began(c) ~> C11_Returned(c)

\* call c holds a row lock and waits for the next row, held by call d, which
\* asked for a range reaching the other way
C11_Witness ==
    \E c, d \in Calls :
        /\ c # d
        /\ pc[c] = "select" /\ locks[c] # {}
        /\ LockScope(c) \ locks[c] # {}
        /\ NextRow(c) \in locks[d]
        /\ req[c].start_at < req[d].start_at
        /\ req[c].end_at < req[d].end_at

\* ------------------------------------------------------------------------
\* C12: a call holds locks only on slots it covers and waits only for a slot
\* it covers that another call holds, so calls covering disjoint sets of
\* slots never wait for each other; a call in the term whose covered slots
\* no other call covers returns 201 unless the storage failed.
\* ------------------------------------------------------------------------
C12_Covered(c) == {i \in SlotIds : Covers(req[c], Row(i))}

C12_Waits(c) == pc[c] \in {"select", "update"} /\ ~ENABLED Progress(c)

C13_Step == \A i \in SlotIds : Row(i)'.slot <= Row(i).slot

C13_CapacityNonIncreasing == [][C13_Step]_vars

\* a slot that has gone down from its seeded capacity to 0
C13_Witness ==
    \E i \in SlotIds : initial_slot[i] > 0 /\ Row(i).slot = 0

\* ------------------------------------------------------------------------
\* C14: the message of a capacity rejection names the interval of a covered
\* slot whose remaining capacity is below 1.
\* ------------------------------------------------------------------------
C14_Names(c, from, to) ==
    \E k \in 1..(Len(body[c]) - 1) : body[c][k] = from /\ body[c][k + 1] = to

C15_SameRange(r, q) == r.start_at = q.start_at /\ r.end_at = q.end_at

C15_Answered(d) ==
    /\ response[d] = NoResponse
    /\ response'[d] # NoResponse
    /\ response'[d].code # StatusInternalServerError
    /\ query'[d] = NoQuery

C15_Step ==
    \A c, d \in Calls :
        (/\ c # d
         /\ response[c] \in {BadTermResponse, NoCapacityResponse}
         /\ C15_Answered(d)
         /\ C15_SameRange(req[c], req'[d]))
        => response'[d] = response[c]

C16_Accounting ==
    \A i \in SlotIds :
        Row(i).slot =
            initial_slot[i]
               - Cardinality({c \in Calls : Created(c) /\ Covers(req[c], Row(i))})

C16_CheckStep ==
    \A c \in Calls :
        (/\ pc[c] = "select"
         /\ pc'[c] # "select"
         /\ response'[c].code # StatusInternalServerError)
        => (response'[c] = NoCapacityResponse <=> C4_CoversEmptySlot(c))

C16_RequesterBlind == [](C16_Accounting) /\ [][C16_CheckStep]_vars

\* two successful calls of the same user for ranges that share a slot, which
\* went down by 2
C16_Witness ==
    \E c, d \in Calls :
        /\ c # d
        /\ req[c].user_id = req[d].user_id
        /\ Created(c) /\ Created(d)
        /\ \E i \in SlotIds :
              /\ Covers(req[c], Row(i)) /\ Covers(req[d], Row(i))
              /\ Row(i).slot = initial_slot[i] - 2

\* ------------------------------------------------------------------------
\* C17: no step of any handler changes or removes a committed livestreams
\* row; the step in which a reservation call succeeds adds exactly one row,
\* whose id no committed row has, and no other step adds a row.
\* ------------------------------------------------------------------------
C17_Succeeds(c) == ~Created(c) /\ Created(c)'

C17_Step ==
    /\ livestreams \subseteq livestreams'
    /\ \A c \in Calls :
          C17_Succeeds(c) =>
              \E l \in livestreams' :
                  /\ livestreams' \ livestreams = {l}
                  /\ \A k \in livestreams : k.id # l.id
    /\ (\A c \in Calls : ~C17_Succeeds(c)) => livestreams' = livestreams

C17_AppendOnly == [][C17_Step]_vars

\* the seeded rows are still there after a reservation that failed behind
\* its INSERT (using up an id) and one that succeeded
C17_Witness ==
    /\ SeedLivestreams \subseteq livestreams
    /\ Cardinality(livestreams) = Cardinality(SeedLivestreams) + 1
    /\ \E l \in livestreams : l.id = Cardinality(SeedLivestreams) + 2

\* ------------------------------------------------------------------------
\* C18: every call that returned 201 has a livestreams row owned by the
\* user of its session, with the title, description, playlist_url,
\* thumbnail_url, start_at and end_at of its request, and the tag ids of the
\* livestream_tags rows of that livestream are exactly the tag ids of the
\* request; every livestream_tags row belongs to such a livestream.
\* ------------------------------------------------------------------------
C18_RowOf(c, l) ==
    /\ l.user_id = session[c]
    /\ l.title = req[c].title
    /\ l.description = req[c].description
    /\ l.playlist_url = req[c].playlist_url
    /\ l.thumbnail_url = req[c].thumbnail_url
    /\ l.start_at = req[c].start_at
    /\ l.end_at = req[c].end_at

C18_TagIds(id) ==
    {livestream_tags[k].tag_id :
        k \in {j \in 1..Len(livestream_tags) : livestream_tags[j].livestream_id = id}}

C18_CreatedAsRequested ==
    /\ \A c \in Calls :
          Created(c) =>
              \E l \in livestreams :
                  /\ C18_RowOf(c, l)
                  /\ C18_TagIds(l.id) = {req[c].tags[k] : k \in 1..Len(req[c].tags)}
    /\ \A k \in 1..Len(livestream_tags) :
          \E c \in Calls, l \in livestreams :
              /\ Created(c)
              /\ C18_RowOf(c, l)
              /\ livestream_tags[k].livestream_id = l.id

\* a livestream created with two tags and one created with none
C18_Witness ==
    \E c, d \in Calls :
        /\ Created(c) /\ Len(req[c].tags) = 2
        /\ Created(d) /\ Len(req[d].tags) = 0
        /\ Len(livestream_tags) = 2
        /\ \E l \in livestreams : C18_RowOf(d, l) /\ C18_TagIds(l.id) = {}

\* ------------------------------------------------------------------------
\* C19: a search without tag filter that returns 200 lists committed
\* livestreams in strictly descending id order: all of them when no limit is
\* given, and with limit n the n largest ids (all rows when there are fewer);
\* the step changes no table and no AUTO_INCREMENT counter.
\* ------------------------------------------------------------------------
C19_Listed(c) ==
    /\ query[c] = NoQuery
    /\ query'[c].handler = "search"
    /\ query'[c].tag = 0
    /\ response'[c] = OKResponse

C19_Ids(rows) == {rows[k].id : k \in 1..Len(rows)}

C19_Step ==
    \A c \in Calls :
        C19_Listed(c) =>
            LET rows == body'[c]
                limit == query'[c].limit
                all == {l.id : l \in livestreams}
            IN /\ \A k \in 1..(Len(rows) - 1) : rows[k].id > rows[k + 1].id
               /\ \A k \in 1..Len(rows) :
                     \E l \in livestreams :
                         /\ l.id = rows[k].id /\ l.user_id = rows[k].owner
                         /\ l.title = rows[k].title
                         /\ l.start_at = rows[k].start_at /\ l.end_at = rows[k].end_at
               /\ limit.kind = "none" => C19_Ids(rows) = all
               /\ limit.kind = "int" =>
                     /\ Len(rows) = IF limit.n < Cardinality(all)
                                    THEN limit.n ELSE Cardinality(all)
                     /\ \A i \in all \ C19_Ids(rows) : \A j \in C19_Ids(rows) : i < j
               /\ tables' = tables
               /\ viewers' = viewers
               /\ auto_increment' = auto_increment

C19_ListAllDescending == [][C19_Step]_vars

\* a search with limit 2 answered with the ids 3 and 2 of a catalog of three
C19_Witness ==
    \E c \in Calls :
        /\ query[c].handler = "search" /\ query[c].tag = 0
        /\ query[c].limit = IntParam(2)
        /\ response[c] = OKResponse
        /\ Len(body[c]) = 2
        /\ body[c][1].id = 3 /\ body[c][2].id = 2
        /\ Cardinality(livestreams) = 3

C21_InTransaction(c) == pc[c] \in {"select", "update", "insert", "tags", "commit"}

C21_PassedCheck(c) == pc[c] \in {"update", "insert", "tags", "commit"}

C21_RaceFree ==
    \A c \in Calls :
        /\ C21_InTransaction(c) =>
              \A k \in 1..Len(slots[c]) :
                  /\ slots[c][k].id \in locks[c]
                  /\ Row(slots[c][k].id).slot = slots[c][k].slot
        /\ C21_PassedCheck(c) =>
              /\ UpdateIds(c) = FetchedIds(c)
              /\ \A k \in 1..Len(slots[c]) : slots[c][k].slot >= 1
              /\ \A d \in Calls \ {c} : locks[d] \cap FetchedIds(c) = {}

\* call d has checked the last unit of a slot and not yet committed, while
\* call c, which asks for the same slot, waits for the row lock
C21_Witness ==
    \E c, d \in Calls :
        /\ c # d
        /\ C21_PassedCheck(d)
        /\ pc[c] = "select"
        /\ LockScope(c) \ locks[c] # {}
        /\ NextRow(c) \in FetchedIds(d)
        /\ Row(NextRow(c)).slot = 1

\* ------------------------------------------------------------------------
\* C22: a call is at or behind its locking read, or holds a row lock, only
\* if its request is inside the term; the request of a call does not change
\* once it has begun; and the step that answers with the term rejection is
\* taken by a call that holds no lock before and after it.  So a call
\* rejected for its term has never held a lock.
\* ------------------------------------------------------------------------
C22_Step ==
    \A c \in Calls :
        /\ (C21_InTransaction(c)' \/ locks'[c] # {}) => InTerm(req'[c])
        /\ Began(c) => req'[c] = req[c]
        /\ response'[c] = BadTermResponse =>
              /\ ~InTerm(req'[c])
              /\ locks[c] = {} /\ locks'[c] = {}
              /\ ~C21_InTransaction(c) /\ ~C21_InTransaction(c)'

C22_ValidationBeforeLocks == [][C22_Step]_vars

\* a call rejected for its term while the other call holds row locks
C22_Witness ==
    \E c, d \in Calls :
        /\ response[c] = BadTermResponse
        /\ locks[c] = {}
        /\ locks[d] # {}

\* ------------------------------------------------------------------------
\* C23: when a call has returned 201, its transaction is over, its
\* livestream row is in the committed table and every slot it covers has
\* been decremented in the committed table; a call that has returned has
\* exactly one of the results 201, term rejection, capacity rejection or
\* failure (500).
\* ------------------------------------------------------------------------
C23_Outcomes ==
    {CreatedResponse, BadTermResponse, NoCapacityResponse,
     BeginErrorResponse, ErrorResponse}

C23_ReturnedAfterCommit ==
    /\ \A c \in Calls :
          /\ Created(c) =>
                /\ Done(c)
                /\ tx[c] = EmptyTx /\ locks[c] = {}
                /\ \E l \in livestreams : C18_RowOf(c, l)
          /\ Done(c) =>
                Cardinality({o \in C23_Outcomes : response[c] = o}) = 1
          /\ ~Done(c) => response[c] = NoResponse
    /\ \A i \in SlotIds :
          initial_slot[i] - Row(i).slot =
              Cardinality({c \in Calls : Created(c) /\ Covers(req[c], Row(i))})

\* one call has returned 201 with its row and decrement committed, the other
\* has failed at its commit
C23_Witness ==
    \E c, d \in Calls :
        /\ Created(c)
        /\ \E i \in SlotIds : Covers(req[c], Row(i)) /\ Row(i).slot = initial_slot[i] - 1
        /\ response[d] = ErrorResponse
        /\ auto_increment = 3

\* ------------------------------------------------------------------------
\* C24: no step creates or deletes a reservation_slots row or changes a
\* row's id, start_at or end_at; in every state every instant of the term
\* lies in exactly one slot and no slot reaches outside the term.
\* ------------------------------------------------------------------------
C24_Step ==
    /\ DOMAIN reservation_slots' = DOMAIN reservation_slots
    /\ \A i \in DOMAIN reservation_slots :
          /\ Row(i)'.id = Row(i).id
          /\ Row(i)'.start_at = Row(i).start_at
          /\ Row(i)'.end_at = Row(i).end_at

C24_Tiles ==
    /\ \A k \in 0..(2 * NumSlots - 1) :
          Cardinality({i \in DOMAIN reservation_slots :
                          Row(i).start_at <= Instant(k) /\ Instant(k) < Row(i).end_at}) = 1
    /\ \A i \in DOMAIN reservation_slots :
          /\ TermStartAt <= Row(i).start_at
          /\ Row(i).start_at < Row(i).end_at
          /\ Row(i).end_at <= TermEndAt
          /\ \E j \in DOMAIN reservation_slots \cup {0} :
                Row(i).start_at = IF j = 0 THEN TermStartAt ELSE Row(j).end_at

C24_PartitionPreserved == [](C24_Tiles) /\ [][C24_Step]_vars

\* a reservation of two slots has committed and another one was refused
C24_Witness ==
    \E c, d \in Calls :
        /\ Created(c)
        /\ Cardinality({i \in SlotIds : Covers(req[c], Row(i))}) = 2
        /\ response[d] = NoCapacityResponse

\* ------------------------------------------------------------------------
\* C25: a step of one of the nine handlers other than
\* reserveLivestreamHandler leaves reservation_slots, livestreams and
\* livestream_tags as they are, and every step that changes one of these
\* tables is the commit of a reservation.
\* ------------------------------------------------------------------------
C25_Readers ==
    {"search", "get", "my", "user", "enter", "exit", "reports",
     "livestream statistics", "user statistics"}

C25_Step ==
    /\ \A c \in Calls :
          (query'[c] # query[c]) =>
              /\ query'[c].handler \in C25_Readers
              /\ tables' = tables
              /\ auto_increment' = auto_increment
    /\ tables' # tables =>
          \E c \in Calls : query[c] = NoQuery /\ pc[c] = "commit" /\ Created(c)'

C25_OnlyBookWrites == [][C25_Step]_vars

\* a viewer has entered and left the livestream that the other call created
C25_Witness ==
    \E c, d \in Calls :
        /\ Created(d)
        /\ query[c].handler = "exit"
        /\ response[c] = OKResponse
        /\ \E l \in livestreams : l.id = query[c].id.n /\ C18_RowOf(d, l)

\* ------------------------------------------------------------------------
\* C26: every call that returned 201 fetched, and so decremented, at least
\* one slot.
\* ------------------------------------------------------------------------
C26_DecrementsSome ==
    \A c \in Calls : Created(c) => FetchedIds(c) # {}

\* ------------------------------------------------------------------------
\* C27: a getIconHashCache call for user u that began after a
\* postIconHandler call for u had returned 201, and during which no further
\* post for u was committed, returns the hash of the image that is stored
\* for u.
\* ------------------------------------------------------------------------
C27_BeganAfterPost(g) ==
    /\ hashcall[g].pc = "done"
    /\ ~hashcall[g].err
    /\ hashcall[g].after >= 1
    /\ returned[hashcall[g].user] = hashcall[g].after
    /\ \A p \in Posts :
          ~(post[p].pc = "committed" /\ post[p].user = hashcall[g].user)

C27_FreshAfterPost ==
    \A g \in Gets :
        C27_BeganAfterPost(g) =>
            \E img \in IconImages(hashcall[g].user) : hashcall[g].hash = Sha256(img)

\* ------------------------------------------------------------------------
\* C28: IconHashCache.Get returns a value exactly when the entry it loaded
\* exists and the time is not after its expiration, and the value is that
\* entry's; when the loaded entry is expired the key has no entry after the
\* call; Set stores the hash with expiration now + ttl; after Delete the key
\* has no entry, and an entry appears or changes only by a Set.
\* ------------------------------------------------------------------------
C28_EntryAfter(key) == {e \in iconHashCache' : e.key = key}

C28_GetStep(g) ==
    LET h == hashcall[g]
        hit == hashcall'[g].pc = "done"
    IN (h.pc = "check" /\ hashcall'[g].pc # "check") =>
          /\ hit <=> (h.loaded # {} /\ \A e \in h.loaded : now <= e.expiration)
          /\ hit => \E e \in h.loaded : hashcall'[g].hash = e.value
          /\ (\E e \in h.loaded : now > e.expiration) => C28_EntryAfter(h.user) = {}
          /\ (h.loaded = {} \/ hit) => iconHashCache' = iconHashCache

C28_SetStep(g) ==
    LET h == hashcall[g]
    IN (h.pc = "set" /\ hashcall'[g].pc = "done") =>
          /\ C28_EntryAfter(h.user) =
                {[key |-> h.user, value |-> hashcall'[g].hash,
                  expiration |-> now + IconHashTTL]}
          /\ hashcall'[g].hash = Sha256(h.image)

C28_Step ==
    /\ \A g \in Gets :
          /\ C28_GetStep(g)
          /\ C28_SetStep(g)
          /\ (hashcall[g].pc = "idle" /\ hashcall'[g].pc = "check") =>
                hashcall'[g].loaded = Load(hashcall'[g].user)
    /\ \A p \in Posts :
          (post[p].pc = "committed" /\ post'[p].pc = "done") =>
              C28_EntryAfter(post[p].user) = {}
    /\ \A u \in SeedUserIds :
          (C28_EntryAfter(u) # {} /\ C28_EntryAfter(u) # Load(u)) =>
              \E g \in Gets :
                  hashcall[g].pc = "set" /\ hashcall'[g].pc = "done" /\ hashcall[g].user = u

C28_NoExpiredEntry == [][C28_Step]_vars

\* a call has loaded the entry that another call had set, found it expired
\* and removed it
C28_Witness ==
    \E f, g \in Gets :
        /\ f # g
        /\ hashcall[f].pc = "done" /\ hashcall[f].loaded = {} /\ hashcall[f].hash # <<>>
        /\ hashcall[g].pc = "select"
        /\ hashcall[g].user = hashcall[f].user
        /\ \E e \in hashcall[g].loaded : e.value = hashcall[f].hash /\ now > e.expiration
        /\ Load(hashcall[g].user) = {}

\* ------------------------------------------------------------------------
\* C29: in every state the committed icons table holds at most one row per
\* user, and the step in which a postIconHandler call ends with 500 leaves
\* the table as it is.
\* ------------------------------------------------------------------------
C29_OneRow ==
    \A r, k \in icons : r.user_id = k.user_id => r = k

C29_FailStep ==
    \A p \in Posts :
        (post[p].code = 0 /\ post'[p].code = StatusInternalServerError) =>
            icons' = icons

C29_OneIconPerUser == [](C29_OneRow) /\ [][C29_FailStep]_vars

\* two calls of one user have both returned 201 and the table holds the row
\* of the second only
C29_Witness ==
    \E p, q \in Posts :
        /\ p # q
        /\ post[p].user = post[q].user
        /\ post[p].code = StatusCreated /\ post[q].code = StatusCreated
        /\ post[p].inserted.id = 1 /\ post[q].inserted.id = 2
        /\ icons = {post[q].inserted}

\* ------------------------------------------------------------------------
\* C30: registration is atomic across its effects.  Once no registerHandler
\* call is under way, a call that answered 201 has left its user row, its
\* theme row and the DNS record of its name, a call that answered anything
\* else has left none of them, and every DNS record belongs to the name of
\* a committed user.
\* ------------------------------------------------------------------------

\* no registerHandler call is between its first and its last step
C30_Quiescent == \A r \in Regs : reg[r].pc \in {"idle", "done"}

\* a committed user has the name
C30_Committed(name) == \E u \in users : u.name = name

\* the effects of call r are all there
C30_All(r) ==
    /\ reg[r].user \in users
    /\ reg[r].theme \in themes
    /\ reg[r].theme.user_id = reg[r].user.id
    /\ DnsName(reg[r].name) \in records

\* no user row and no DNS record is there for the name of call r, and no
\* theme row without its user
C30_None(r) ==
    /\ ~C30_Committed(reg[r].name)
    /\ DnsName(reg[r].name) \notin records
    /\ \A t \in themes : \E u \in users : u.id = t.user_id

C30_RegistrationAtomic ==
    C30_Quiescent =>
        /\ \A r \in Regs :
              reg[r].pc = "done" =>
                 IF reg[r].code = StatusCreated
                 THEN C30_All(r)
                 ELSE C30_Committed(reg[r].name) \/ C30_None(r)
        /\ \A name \in RegNames :
              DnsName(name) \in records => C30_Committed(name)

\* ------------------------------------------------------------------------
\* C31: every committed user has exactly one theme row.  In every state
\* reached by registerHandler calls, each row of users has exactly one row
\* of themes with its id as user_id, so the SELECT of fillUserResponse
\* finds a theme for every committed user.
\* ------------------------------------------------------------------------

\* SELECT * FROM themes WHERE user_id = ? on the committed table
C31_ThemesOf(u) == {t \in themes : t.user_id = u.id}

C31_OneThemePerUser == \A u \in users : Cardinality(C31_ThemesOf(u)) = 1

\* a registration has committed its user and theme, and another has failed
C31_Witness ==
    /\ \E r \in Regs :
          /\ reg[r].pc = "done"
          /\ reg[r].code = StatusCreated
          /\ reg[r].user \in users
          /\ reg[r].user \notin SeedUsers
          /\ C31_ThemesOf(reg[r].user) = {reg[r].theme}
    /\ \E q \in Regs :
          reg[q].pc = "done" /\ reg[q].code = StatusInternalServerError

\* ------------------------------------------------------------------------
\* C32: session validity.  verifyUserSession accepts a request exactly when
\* session.Get succeeded, the session holds EXPIRES and USERID, and the
\* Unix time of the check is at most EXPIRES; a session loginHandler made
\* at Unix time t is accepted at every Unix time up to t + 3600 and
\* rejected with 401 at every later one; and a handler whose session was
\* rejected has run no statement on the database.
\* ------------------------------------------------------------------------

\* verifyUserSession has run in the request of client k
C32_Verified(k) == visit[k].err # -1

\* the session of the request was made by loginHandler
C32_LoggedIn(k) == ~visit[k].sess.err /\ visit[k].sess.values # {}

C33_Score(l) ==
    Cardinality({r \in SeedReactions : r.livestream_id = l.id})
        + SumTips({m \in SeedLivecomments : m.livestream_id = l.id})

\* the livestreams that rank above l
C33_Above(l) ==
    {k \in livestreams :
        \/ C33_Score(k) > C33_Score(l)
        \/ C33_Score(k) = C33_Score(l) /\ k.id > l.id}

C33_Ranked(c) ==
    /\ query[c] = NoQuery
    /\ query'[c].handler = "livestream statistics"
    /\ response'[c] = OKResponse

C33_Step ==
    \A c \in Calls :
        C33_Ranked(c) =>
            \E l \in livestreams :
                /\ l.id = query'[c].id.n
                /\ body'[c][1].rank = 1 + Cardinality(C33_Above(l))

C33_Total ==
    /\ {LivestreamRank(l.id) : l \in livestreams} = 1..Cardinality(livestreams)
    /\ \A k, l \in livestreams :
          LivestreamRank(k.id) = LivestreamRank(l.id) => k = l

C33_RankIsTotal == [](C33_Total) /\ [][C33_Step]_vars

\* of three livestreams, 1 and 2 have the same score and 3 a lower one;
\* livestream 1 was ranked second, behind livestream 2
C33_Witness ==
    \E c \in Calls :
        /\ query[c].handler = "livestream statistics"
        /\ query[c].id = IntParam(1)
        /\ response[c] = OKResponse
        /\ body[c][1].rank = 2
        /\ Cardinality(livestreams) = 3
        /\ \E k, l \in livestreams :
              k.id = 1 /\ l.id = 2 /\ C33_Score(k) = C33_Score(l)
        /\ LivestreamRank(3) = 3

\* ------------------------------------------------------------------------
\* C34: viewer presence.  A 200 of enterLivestreamHandler for user u and
\* livestream l adds exactly one livestream_viewers_history row, of (u, l);
\* a 200 of exitLivestreamHandler removes every row of (u, l) and leaves
\* every other row, so that the viewer count of l is afterwards the number
\* of rows of l of other users, however many times u had entered; every
\* other answer of the two handlers leaves the table as it was.
\* ------------------------------------------------------------------------

\* the rows of user u on livestream l
C34_Rows(u, l) ==
    {h \in livestream_viewers_history : h.user_id = u /\ h.livestream_id = l}

\* SELECT COUNT(*) ... WHERE livestream_id = l, on a table
C34_Count(history, l) == Cardinality({h \in history : h.livestream_id = l})

\* call c is answered in this step by the handler
C34_Answered(c, handler) == query[c] = NoQuery /\ query'[c].handler = handler

C34_Step ==
    \A c \in Calls :
        LET u == session[c]
            l == query'[c].id.n
        IN /\ C34_Answered(c, "enter") /\ response'[c] = OKResponse =>
                 /\ livestream_viewers_history \subseteq livestream_viewers_history'
                 /\ \E h \in livestream_viewers_history' :
                       /\ h.user_id = u /\ h.livestream_id = l
                       /\ livestream_viewers_history' \ livestream_viewers_history = {h}
           /\ C34_Answered(c, "exit") /\ response'[c] = OKResponse =>
                 /\ livestream_viewers_history' =
                       livestream_viewers_history \ C34_Rows(u, l)
                 /\ C34_Count(livestream_viewers_history', l) =
                       Cardinality({h \in livestream_viewers_history :
                                       h.livestream_id = l /\ h.user_id # u})
           /\ (C34_Answered(c, "enter") \/ C34_Answered(c, "exit"))
                 /\ response'[c] # OKResponse =>
                    livestream_viewers_history' = livestream_viewers_history
           /\ C34_Answered(c, "livestream statistics") /\ response'[c] = OKResponse =>
                 body'[c][1].viewers_count = C34_Count(livestream_viewers_history, l)

C34_ViewerPresence == [][C34_Step]_vars

\* user 1, who had entered livestream 1 twice, has left it: both rows are
\* gone, the rows of user 2 on livestream 1 and of user 1 on livestream 2
\* are there, and the statistics then count one viewer
C34_Witness ==
    \E c, d \in Calls :
        /\ query[c].handler = "exit" /\ query[c].id = IntParam(1)
        /\ session[c] = 1
        /\ response[c] = OKResponse
        /\ livestream_viewers_history = {h \in PastViewers : h.id \in {3, 4}}
        /\ query[d].handler = "livestream statistics" /\ query[d].id = IntParam(1)
        /\ response[d] = OKResponse
        /\ body[d][1].viewers_count = 1

\* ------------------------------------------------------------------------
\* C35: report access control.  getLivecommentReportsHandler answers 200
\* only to the owner of the livestream, with exactly the reports of that
\* livestream; for every other user the answer carries no report and is
\* 403, or 500 when the livestream cannot be read, whatever reports the
\* livestream has.
\* ------------------------------------------------------------------------

\* call c is answered in this step by getLivecommentReportsHandler
C35_Answered(c) == query[c] = NoQuery /\ query'[c].handler = "reports"

\* the livestream call c asks about, if it exists
C35_Livestream(c) == {l \in livestreams : l.id = query'[c].id.n}

\* the session of call c is not the owner's
C35_Other(c) ==
    /\ query'[c].id.kind = "int"
    /\ \E l \in C35_Livestream(c) : l.user_id # session[c]

\* the reports a response carries
C35_Reports(rows) == {rows[k] : k \in 1..Len(rows)}

\* the claim as stated: every other user gets 403
C35_OriginalStep ==
    \A c \in Calls :
        C35_Answered(c) /\ C35_Other(c) =>
            response'[c] = ForbiddenResponse /\ body'[c] = <<>>

C35_Original == [][C35_OriginalStep]_vars

C35_Step ==
    \A c \in Calls :
        C35_Answered(c) =>
            /\ response'[c] = OKResponse =>
                  /\ \E l \in C35_Livestream(c) : l.user_id = session[c]
                  /\ C35_Reports(body'[c]) =
                        {r \in SeedLivecommentReports :
                            r.livestream_id = query'[c].id.n}
            /\ response'[c] # OKResponse => body'[c] = <<>>
            /\ C35_Other(c) =>
                  /\ response'[c] \in {ForbiddenResponse, QueryErrorResponse}
                  /\ body'[c] = <<>>

C35_OwnerOnly == [][C35_Step]_vars

\* user 1 was refused the reports of livestream 2, which has a report, and
\* its owner, user 2, was given that report
C35_Witness ==
    \E c, d \in Calls :
        /\ query[c].handler = "reports" /\ query[c].id = IntParam(2)
        /\ session[c] = 1
        /\ response[c] = ForbiddenResponse
        /\ body[c] = <<>>
        /\ query[d].handler = "reports" /\ query[d].id = IntParam(2)
        /\ session[d] = 2
        /\ response[d] = OKResponse
        /\ C35_Reports(body[d]) = SeedLivecommentReports
        /\ SeedLivecommentReports # {}

=============================================================================
